---------------------------- MODULE Spec2Model ----------------------------
(***************************************************************************)
(* DynamicsWebApi: the request-composition and batch-serialization engine  *)
(* (RequestUtility) as a state machine.                                    *)
(*                                                                         *)
(* Strings are sequences of atoms.  An atom is a piece of text the model   *)
(* never splits: one delimiter character ("$", "/", "(", ",", ...) or a    *)
(* word.  startsWith, endsWith, indexOf, replace, split, trim and join     *)
(* work on these sequences as the JavaScript methods work on characters.   *)
(* An optional value is Null (absent: undefined or null) or Some(v).       *)
(***************************************************************************)
EXTENDS Integers, Sequences, FiniteSets, TLC

VARIABLES
    call,             \* the entry point the caller uses: "compose", "composePreferHeader"
                      \* or "convertToBatch"
    pc,               \* position of the call: "ready", "loop", "returned", "thrown"
    functionName,     \* the functionName argument of compose
    config,           \* the DynamicsWebApi.Config argument (Null or Some(record))
    request,          \* the descriptor object handed to compose / composePreferHeader
    given,            \* the descriptor (or the batch parts) as they were at the call
    result,           \* what the call returned (Null while running or when it threw)
    error,            \* the exception that left the call (NoErr when none)
    requests,         \* convertToBatch: the parts array (its descriptors are mutable)
    idx,              \* convertToBatch: index of the part forEach visits next
    batchBoundary,    \* convertToBatch: the outer boundary token
    batchBody,        \* convertToBatch: the local array of pushed strings
    currentChangeSet, \* convertToBatch: Null or Some(token of the open change-set)
    contentId,        \* convertToBatch: the content-ID counter
    uuidCount,        \* number of UUIDs generated so far
    entityNames,      \* the static RequestUtility.entityNames: Null or Some(sequence of
                      \* <<entity name, collection name>>)
    xmlHttpRequest,   \* xhrRequest: the XMLHttpRequest object (readyState, status,
                      \* response headers, responseText, the event still to be fired)
    released,         \* xhrRequest: TRUE once the closure variable `request` is null
    timeout,          \* xhrRequest: options.timeout (0 when not given)
    responseParams,   \* xhrRequest: options.responseParams, an array
    callbacks,        \* xhrRequest: the callback invocations so far, in order
    thrown            \* xhrRequest: the exception that left the handler run last

vars == <<call, pc, functionName, config, request, given, result, error, requests, idx,
          batchBoundary, batchBody, currentChangeSet, contentId, uuidCount, entityNames,
          xmlHttpRequest, released, timeout, responseParams, callbacks, thrown>>

\* the state of one xhrRequest call
xhrVars == <<xmlHttpRequest, released, timeout, responseParams, callbacks, thrown>>

---------------------------------------------------------------------------
(* Optional values and JavaScript truthiness *)

Null == <<>>

Some(v) == <<v>>

IsNull(o) == o = <<>>

Val(o) == o[1]

\* if (s) for an optional string: present and not ""
TruthyStr(o) == o # <<>> /\ Len(o[1]) > 0

\* if (b) for an optional boolean
TruthyBool(o) == o # <<>> /\ o[1]

\* if (n) for an optional number
TruthyNum(o) == o # <<>> /\ o[1] # 0

---------------------------------------------------------------------------
(* String methods on sequences of atoms *)

StartsWith(s, p) == Len(s) >= Len(p) /\ SubSeq(s, 1, Len(p)) = p

EndsWith(s, p) == Len(s) >= Len(p) /\ SubSeq(s, Len(s) - Len(p) + 1, Len(s)) = p

\* String.prototype.indexOf, 1-based; 0 when p does not occur
IndexOf(s, p) ==
    LET hits == {i \in 1..(Len(s) - Len(p) + 1) : SubSeq(s, i, i + Len(p) - 1) = p}
    IN  IF hits = {} THEN 0 ELSE CHOOSE i \in hits : \A j \in hits : i <= j

\* s.replace(p, r) with a string pattern: the first occurrence only
ReplaceFirst(s, p, r) ==
    LET i == IndexOf(s, p)
    IN  IF i = 0 \/ Len(p) = 0 THEN (IF Len(p) = 0 THEN r \o s ELSE s)
        ELSE SubSeq(s, 1, i - 1) \o r \o SubSeq(s, i + Len(p), Len(s))

\* s.replace(/c/g, ""): every occurrence of the one-atom pattern c removed
RECURSIVE RemoveAll(_, _)
RemoveAll(s, c) ==
    IF s = <<>> THEN <<>>
    ELSE (IF Head(s) = c THEN <<>> ELSE <<Head(s)>>) \o RemoveAll(Tail(s), c)

\* s.replace(/c/g, r) for one-atom c and r
RECURSIVE ReplaceAll(_, _, _)
ReplaceAll(s, c, r) ==
    IF s = <<>> THEN <<>>
    ELSE <<IF Head(s) = c THEN r ELSE Head(s)>> \o ReplaceAll(Tail(s), c, r)

\* s.split(c) for a one-atom separator: always at least one piece
RECURSIVE Split(_, _)
Split(s, c) ==
    LET i == IndexOf(s, <<c>>)
    IN  IF i = 0 THEN <<s>>
        ELSE <<SubSeq(s, 1, i - 1)>> \o Split(SubSeq(s, i + 1, Len(s)), c)

\* array.join(sep)
RECURSIVE Join(_, _)
Join(arr, sep) ==
    IF arr = <<>> THEN <<>>
    ELSE IF Len(arr) = 1 THEN arr[1]
    ELSE arr[1] \o sep \o Join(Tail(arr), sep)

\* s.trim(): leading and trailing " " atoms removed
RECURSIVE TrimLeft(_)
TrimLeft(s) == IF s # <<>> /\ Head(s) = " " THEN TrimLeft(Tail(s)) ELSE s

RECURSIVE TrimRight(_)
TrimRight(s) ==
    IF s # <<>> /\ s[Len(s)] = " " THEN TrimRight(SubSeq(s, 1, Len(s) - 1)) ELSE s

Trim(s) == TrimRight(TrimLeft(s))

\* the decimal numerals the inputs of this model use, for Number(string)
Numerals == {0, 1, 5, 10}

\* Number(s) || 0: the value of a numeral, 0 for "" and for anything that is not one
NumberOrZero(s) ==
    IF Len(s) = 1 /\ \E n \in Numerals : ToString(n) = s[1]
    THEN CHOOSE n \in Numerals : ToString(n) = s[1]
    ELSE 0

\* encodeURIComponent on one atom: a character outside A-Z a-z 0-9 - _ . ! ~ * ' ( )
\* becomes its percent-escape; words, numerals and GUIDs consist of unreserved
\* characters only
EncodeAtom(a) ==
    CASE a = " "  -> "%20"
      [] a = "{"  -> "%7B"
      [] a = "}"  -> "%7D"
      [] a = ","  -> "%2C"
      [] a = "\"" -> "%22"
      [] a = "="  -> "%3D"
      [] a = "$"  -> "%24"
      [] a = "/"  -> "%2F"
      [] a = "<"  -> "%3C"
      [] a = ">"  -> "%3E"
      [] OTHER    -> a

encodeURIComponent(s) == [i \in 1..Len(s) |-> EncodeAtom(s[i])]

---------------------------------------------------------------------------
(* Errors.  An exception is a record; NoErr stands for normal completion. *)

NoErr == [kind |-> "none", param |-> ""]

ValidationError(param) == [kind |-> "ValidationError", param |-> param]

UsageError == [kind |-> "UsageError", param |-> "request.ifmatch/request.ifnonematch"]

Failed(e) == e.kind # "none"

---------------------------------------------------------------------------
(* ErrorHelper: the validation helpers RequestUtility calls.  On a value   *)
(* of the declared type stringParameterCheck, boolParameterCheck,          *)
(* numberParameterCheck, arrayParameterCheck and                           *)
(* stringOrArrayParameterCheck return without effect; the descriptors of   *)
(* this model hold values of their declared types, so those calls are not  *)
(* written out.  The helpers that decide on the value are below.  Each     *)
(* returns [err, value].                                                   *)

\* the texts that are well-formed GUIDs
GuidAtoms == {"00000000-0000-0000-0000-000000000001",
              "00000000-0000-0000-0000-000000000002"}

\* ErrorHelper.parameterCheck: a required parameter must be present and not empty
parameterCheck(o, param) ==
    IF TruthyStr(o) THEN NoErr ELSE ValidationError(param)

\* ErrorHelper.guidParameterCheck: the text must be a GUID; it is used verbatim
guidParameterCheck(s, param) ==
    IF Len(s) = 1 /\ s[1] \in GuidAtoms
    THEN [err |-> NoErr, value |-> s]
    ELSE [err |-> ValidationError(param), value |-> <<>>]

\* one `attr=value` element of an alternate key, value not empty
IsKeyElement(e) == Len(e) >= 3 /\ e[2] = "=" /\ e[1] \notin {"=", ",", " ", "\"", "'"}

\* the elements of an alternate key, each trimmed, double quotes made single
NormalizedKeyElements(s) ==
    LET parts == Split(s, ",")
    IN  [i \in 1..Len(parts) |-> ReplaceAll(Trim(parts[i]), "\"", "'")]

\* ErrorHelper.keyParameterCheck: a GUID, or an alternate key
\* `attr=value,attr2=value2`, which is returned normalized
keyParameterCheck(s, param) ==
    IF ~Failed(guidParameterCheck(s, param).err) THEN guidParameterCheck(s, param)
    ELSE LET elems == NormalizedKeyElements(s)
         IN  IF \A i \in 1..Len(elems) : IsKeyElement(elems[i])
             THEN [err |-> NoErr, value |-> Join(elems, <<",">>)]
             ELSE [err |-> ValidationError(param), value |-> <<>>]

---------------------------------------------------------------------------
(* The prefer option is a string or an array of strings (or absent) *)

NoPrefer == [t |-> "null"]

PreferStr(s) == [t |-> "str", s |-> s]

PreferArr(a) == [t |-> "arr", a |-> a]

\* request.prefer && request.prefer.length
PreferGiven(p) ==
    \/ p.t = "str" /\ Len(p.s) > 0
    \/ p.t = "arr" /\ Len(p.a) > 0

\* The array the for-in loop of composePreferHeader runs over: the local
\* `prefer` is assigned only when request.prefer is a string (line 356-358);
\* for an array it stays undefined and for-in over undefined has no iteration.
PreferItems(p) == IF p.t = "str" THEN Split(p.s, ",") ELSE <<>>

\* one iteration of the loop over prefer (lines 360-372) on the four locals
PreferItem(st, raw) ==
    LET item == Trim(raw)
    IN  IF item = <<"return=representation">>
        THEN [st EXCEPT !.returnRepresentation = Some(TRUE)]
        ELSE IF IndexOf(item, <<"odata.include-annotations=">>) > 0
        THEN [st EXCEPT !.includeAnnotations =
                 Some(RemoveAll(ReplaceFirst(item, <<"odata.include-annotations=">>, <<>>), "\""))]
        ELSE IF StartsWith(item, <<"odata.maxpagesize=">>)
        THEN [st EXCEPT !.maxPageSize =
                 Some(NumberOrZero(RemoveAll(ReplaceFirst(item, <<"odata.maxpagesize=">>, <<>>), "\"")))]
        ELSE IF IndexOf(item, <<"odata.track-changes">>) > 0
        THEN [st EXCEPT !.trackChanges = Some(TRUE)]
        ELSE st

RECURSIVE PreferLoop(_, _)
PreferLoop(st, items) ==
    IF items = <<>> THEN st ELSE PreferLoop(PreferItem(st, Head(items)), Tail(items))

\* lines 379-385: the locals defaulted from config
PreferDefaults(st, cfg) ==
    IF IsNull(cfg) THEN st
    ELSE [st EXCEPT
            !.returnRepresentation =
                IF IsNull(st.returnRepresentation) THEN Val(cfg).returnRepresentation
                ELSE st.returnRepresentation,
            !.includeAnnotations =
                IF TruthyStr(st.includeAnnotations) THEN st.includeAnnotations
                ELSE Val(cfg).includeAnnotations,
            !.maxPageSize =
                IF TruthyNum(st.maxPageSize) THEN st.maxPageSize
                ELSE Val(cfg).maxPageSize]

\* lines 387-405: the directives pushed, in their fixed order
PreferDirectives(st) ==
    (IF TruthyBool(st.returnRepresentation) THEN << <<"return=representation">> >> ELSE <<>>)
    \o (IF TruthyStr(st.includeAnnotations)
        THEN << <<"odata.include-annotations=", "\"">> \o Val(st.includeAnnotations) \o <<"\"">> >>
        ELSE <<>>)
    \o (IF TruthyNum(st.maxPageSize) /\ Val(st.maxPageSize) > 0
        THEN << <<"odata.maxpagesize=", ToString(Val(st.maxPageSize))>> >>
        ELSE <<>>)
    \o (IF TruthyBool(st.trackChanges) THEN << <<"odata.track-changes">> >> ELSE <<>>)

\* the four locals of composePreferHeader after the loop and the defaults
PreferLocals(req, cfg) ==
    LET st0 == [returnRepresentation |-> req.returnRepresentation,
                includeAnnotations   |-> req.includeAnnotations,
                maxPageSize          |-> req.maxPageSize,
                trackChanges         |-> req.trackChanges]
        st1 == IF PreferGiven(req.prefer) THEN PreferLoop(st0, PreferItems(req.prefer)) ELSE st0
    IN  PreferDefaults(st1, cfg)

\* RequestUtility.composePreferHeader: the value of the Prefer header ("" for none)
composePreferHeader(req, cfg) == Join(PreferDirectives(PreferLocals(req, cfg)), <<",">>)

---------------------------------------------------------------------------
(* The expand option is a string or an array of sub-descriptors (or absent) *)

NoExpand == [t |-> "null"]

ExpandStr(s) == [t |-> "str", s |-> s]

ExpandArr(a) == [t |-> "arr", a |-> a]

\* request.expand && request.expand.length
ExpandGiven(e) ==
    \/ e.t = "str" /\ Len(e.s) > 0
    \/ e.t = "arr" /\ Len(e.a) > 0

---------------------------------------------------------------------------
(* Headers: a JavaScript object, i.e. <<key, value>> pairs in insertion order *)

HasHeader(h, k) == \E i \in 1..Len(h) : h[i][1] = k

Header(h, k) == h[CHOOSE i \in 1..Len(h) : h[i][1] = k][2]

\* line 297 with `== null` for the second `!= null`
ConditionalsConflictTypo(req) == ~IsNull(req.ifmatch) /\ IsNull(req.ifnonematch)

\* line 297: ifmatch and ifnonematch are both given
ConditionalsConflict(req) == ~IsNull(req.ifmatch) /\ ~IsNull(req.ifnonematch)

\* lines 289-343 with the Prefer value computed: [err, headers]
HeadersWithPrefer(req, prefer) ==
    LET h1 == IF Len(prefer) > 0 THEN << <<"Prefer", prefer>> >> ELSE <<>>
        h2 == h1 \o (IF TruthyStr(req.ifmatch)
                     THEN << <<"If-Match", Val(req.ifmatch)>> >> ELSE <<>>)
        h3 == h2 \o (IF TruthyStr(req.ifnonematch)
                     THEN << <<"If-None-Match", Val(req.ifnonematch)>> >> ELSE <<>>)
        imp == IF TruthyStr(req.impersonate)
               THEN guidParameterCheck(Val(req.impersonate), "request.impersonate")
               ELSE [err |-> NoErr, value |-> <<>>]
        h4 == h3 \o (IF TruthyStr(req.impersonate)
                     THEN << <<"MSCRMCallerID", imp.value>> >> ELSE <<>>)
        h5 == h4 \o (IF TruthyStr(req.token)
                     THEN << <<"Authorization", <<"Bearer ">> \o Val(req.token)>> >> ELSE <<>>)
        h6 == h5 \o (IF TruthyBool(req.duplicateDetection)
                     THEN << <<"MSCRM.SuppressDuplicateDetection", <<"false">> >> >> ELSE <<>>)
        h7 == h6 \o (IF TruthyBool(req.noCache)
                     THEN << <<"Cache-Control", <<"no-cache">> >> >> ELSE <<>>)
        h8 == h7 \o (IF TruthyBool(req.mergeLabels)
                     THEN << <<"MSCRM.MergeLabels", <<"true">> >> >> ELSE <<>>)
        h9 == h8 \o (IF TruthyStr(req.contentId) /\ ~StartsWith(Val(req.contentId), <<"$">>)
                     THEN << <<"Content-ID", Val(req.contentId)>> >> ELSE <<>>)
    IN  IF ConditionalsConflict(req)
        THEN [err |-> UsageError, headers |-> <<>>]
        ELSE IF Failed(imp.err)
        THEN [err |-> imp.err, headers |-> <<>>]
        ELSE [err |-> NoErr, headers |-> h9]

\* RequestUtility.composeHeaders: [err, headers]
composeHeaders(req, fn, cfg) == HeadersWithPrefer(req, composePreferHeader(req, cfg))

---------------------------------------------------------------------------
(* composeUrl.  Its locals are the record [request, url, query, err]:      *)
(* request is the descriptor object (select may be shifted), url the url   *)
(* so far, query the queryArray, err the exception once one is thrown.     *)
(* A stage after a throw is not run.                                       *)

\* lines 161-176: navigationProperty, its key, the metadata attribute type
UrlNavigation(st) ==
    LET req == st.request
        nk  == IF TruthyStr(req.navigationPropertyKey)
               THEN keyParameterCheck(Val(req.navigationPropertyKey), "request.navigationPropertyKey")
               ELSE [err |-> NoErr, value |-> <<>>]
        u1  == st.url \o <<"/">> \o Val(req.navigationProperty)
        u2  == IF TruthyStr(req.navigationPropertyKey)
               THEN u1 \o <<"(">> \o nk.value \o <<")">> ELSE u1
        u3  == IF Val(req.navigationProperty) = <<"Attributes">> /\ TruthyStr(req.metadataAttributeType)
               THEN u2 \o <<"/">> \o Val(req.metadataAttributeType) ELSE u2
    IN  IF Failed(st.err) \/ ~TruthyStr(req.navigationProperty) THEN st
        ELSE IF Failed(nk.err) THEN [st EXCEPT !.err = nk.err]
        ELSE [st EXCEPT !.url = u3]

\* lines 178-199 with the list emptied once it is joined (select.length = 0)
UrlSelectEmptied(st, fn) ==
    LET req == st.request
        sel == Val(req.select)
    IN  IF Failed(st.err) \/ IsNull(req.select) \/ Len(Val(req.select)) = 0 THEN st
        ELSE IF fn = "retrieve" /\ Len(sel) = 1 /\ EndsWith(sel[1], <<"/", "$ref">>)
        THEN [st EXCEPT !.url = st.url \o <<"/">> \o sel[1]]
        ELSE LET shifts == StartsWith(sel[1], <<"/">>) /\ fn = "retrieve"
                 rest   == IF shifts THEN Tail(sel) ELSE sel
                 u      == IF shifts /\ IsNull(req.navigationProperty)
                           THEN st.url \o sel[1] ELSE st.url
                 q      == IF Len(rest) > 0
                           THEN Append(st.query, <<"$select=">> \o Join(rest, <<",">>))
                           ELSE st.query
             IN  [st EXCEPT !.request.select = Some(<<>>), !.url = u, !.query = q]

\* lines 178-199 without the test of line 186: the shifted entry is always appended
UrlSelectAlwaysAppends(st, fn) ==
    LET req == st.request
        sel == Val(req.select)
    IN  IF Failed(st.err) \/ IsNull(req.select) \/ Len(Val(req.select)) = 0 THEN st
        ELSE IF fn = "retrieve" /\ Len(sel) = 1 /\ EndsWith(sel[1], <<"/", "$ref">>)
        THEN [st EXCEPT !.url = st.url \o <<"/">> \o sel[1]]
        ELSE LET shifts == StartsWith(sel[1], <<"/">>) /\ fn = "retrieve"
                 rest   == IF shifts THEN Tail(sel) ELSE sel
                 u      == IF shifts THEN st.url \o sel[1] ELSE st.url
                 q      == IF Len(rest) > 0
                           THEN Append(st.query, <<"$select=">> \o Join(rest, <<",">>))
                           ELSE st.query
             IN  [st EXCEPT !.request.select = Some(rest), !.url = u, !.query = q]

\* lines 178-199: select
UrlSelect(st, fn) ==
    LET req == st.request
        sel == Val(req.select)
    IN  IF Failed(st.err) \/ IsNull(req.select) \/ Len(Val(req.select)) = 0 THEN st
        ELSE IF fn = "retrieve" /\ Len(sel) = 1 /\ EndsWith(sel[1], <<"/", "$ref">>)
        THEN [st EXCEPT !.url = st.url \o <<"/">> \o sel[1]]
        ELSE LET shifts == StartsWith(sel[1], <<"/">>) /\ fn = "retrieve"
                 rest   == IF shifts THEN Tail(sel) ELSE sel
                 u      == IF shifts /\ IsNull(req.navigationProperty)
                           THEN st.url \o sel[1] ELSE st.url
                 q      == IF Len(rest) > 0
                           THEN Append(st.query, <<"$select=">> \o Join(rest, <<",">>))
                           ELSE st.query
             IN  [st EXCEPT !.request.select = Some(rest), !.url = u, !.query = q]

\* The filter is a sequence of one-character atoms, except that the 36
\* characters of a GUID are one atom; the filters of this model have a
\* one-character atom on either side of a braced GUID.
FilterGuids == {"00000000-0000-0000-0000-000000000001",
                "00000000-0000-0000-0000-000000000002"}

FilterQuotes == {"'", "\""}

\* the number of characters an atom of a filter stands for
FilterWidth(a) == IF a \in FilterGuids THEN 36 ELSE 1

\* the 0-based character index at which the k-th atom starts
RECURSIVE CharPos(_, _)
CharPos(s, k) == IF k <= 1 THEN 0 ELSE CharPos(s, k - 1) + FilterWidth(s[k - 1])

\* line 203, removeBracketsFromGuidReg tried at atom k: a character that is no
\* quote, `{`, a GUID, `}`, then a character that is no quote or the end of the
\* string.  The number of atoms matched (m[0]), 0 for no match.
FilterMatchLen(s, k) ==
    IF /\ k + 3 <= Len(s)
       /\ s[k] \notin FilterQuotes
       /\ s[k + 1] = "{"
       /\ s[k + 2] \in FilterGuids
       /\ s[k + 3] = "}"
    THEN IF k + 4 > Len(s) THEN 4
         ELSE IF s[k + 4] \notin FilterQuotes THEN 5 ELSE 0
    ELSE 0

\* line 208, exec from lastIndex: the atom at which the first match at or
\* after the character index lastIndex starts, 0 when exec returns null
FilterNext(s, lastIndex) ==
    LET hits == {k \in 1..Len(s) : CharPos(s, k) >= lastIndex /\ FilterMatchLen(s, k) > 0}
    IN  IF hits = {} THEN 0 ELSE CHOOSE k \in hits : \A j \in hits : k <= j

\* lines 213-214: the replacement for the match m[0]
FilterReplacement(m) == <<" ", m[3], IF m[Len(m)] = ")" THEN ")" ELSE " ">>

\* lines 208-215: the loop; the regular expression keeps its lastIndex, the
\* end of the match in the string before the replacement, while
\* filterResult.replace(m[0], ...) rewrites the first occurrence of m[0]
RECURSIVE FilterLoop(_, _)
FilterStep(s, k, n) ==
    IF k = 0 THEN s
    ELSE FilterLoop(ReplaceFirst(s, SubSeq(s, k, k + n - 1),
                                 FilterReplacement(SubSeq(s, k, k + n - 1))),
                    CharPos(s, k + n))

FilterAt(s, k) == FilterStep(s, k, IF k = 0 THEN 0 ELSE FilterMatchLen(s, k))

FilterLoop(s, lastIndex) == FilterAt(s, FilterNext(s, lastIndex))

\* lines 204-215: filterResult
FilterResult(filter) == FilterLoop(filter, 0)

\* lines 201-218: filter
UrlFilter(st) ==
    IF Failed(st.err) \/ ~TruthyStr(st.request.filter) THEN st
    ELSE [st EXCEPT !.query =
             Append(st.query,
                    <<"$filter=">> \o encodeURIComponent(FilterResult(Val(st.request.filter))))]

\* lines 220-226: savedQuery and userQuery
UrlSavedQueries(st) ==
    LET req == st.request
        sq  == IF TruthyStr(req.savedQuery)
               THEN guidParameterCheck(Val(req.savedQuery), "request.savedQuery")
               ELSE [err |-> NoErr, value |-> <<>>]
        uq  == IF TruthyStr(req.userQuery)
               THEN guidParameterCheck(Val(req.userQuery), "request.userQuery")
               ELSE [err |-> NoErr, value |-> <<>>]
        q1  == IF TruthyStr(req.savedQuery)
               THEN Append(st.query, <<"savedQuery=">> \o sq.value) ELSE st.query
        q2  == IF TruthyStr(req.userQuery)
               THEN Append(q1, <<"userQuery=">> \o uq.value) ELSE q1
    IN  IF Failed(st.err) THEN st
        ELSE IF Failed(sq.err) THEN [st EXCEPT !.err = sq.err]
        ELSE IF Failed(uq.err) THEN [st EXCEPT !.query = q1, !.err = uq.err]
        ELSE [st EXCEPT !.query = q2]

\* lines 228-246: apply, count, top, orderBy
UrlShaping(st) ==
    LET req == st.request
        q1  == IF TruthyStr(req.apply)
               THEN Append(st.query, <<"$apply=">> \o Val(req.apply)) ELSE st.query
        q2  == IF TruthyBool(req.count) THEN Append(q1, <<"$count=", "true">>) ELSE q1
        q3  == IF TruthyNum(req.top) /\ Val(req.top) > 0
               THEN Append(q2, <<"$top=", ToString(Val(req.top))>>) ELSE q2
        q4  == IF ~IsNull(req.orderBy) /\ Len(Val(req.orderBy)) > 0
               THEN Append(q3, <<"$orderby=">> \o Join(Val(req.orderBy), <<",">>)) ELSE q3
    IN  IF Failed(st.err) THEN st ELSE [st EXCEPT !.query = q4]

\* lines 283-285: the url returned, with the query when there is one
UrlReturn(st, joinSymbol) ==
    [err     |-> st.err,
     request |-> st.request,
     url     |-> IF Failed(st.err) THEN <<>>
                 ELSE IF Len(st.query) = 0 THEN st.url
                 ELSE st.url \o <<"?">> \o Join(st.query, <<joinSymbol>>)]

RECURSIVE composeUrl(_, _, _, _, _)

\* lines 269-273 without substr(1): the leading `?` stays inside the parentheses
ExpandItemOfWholeUrl(entry, c) ==
    [err  |-> c.err,
     item |-> Val(entry.property)
              \o (IF Len(c.url) > 0 THEN <<"(">> \o c.url \o <<")">> ELSE <<>>)]

\* lines 269-273: the item of one sub-descriptor whose options composed to c
ExpandItemOf(entry, c) ==
    [err  |-> c.err,
     item |-> Val(entry.property)
              \o (IF Len(c.url) > 0 THEN <<"(">> \o Tail(c.url) \o <<")">> ELSE <<>>)]

\* lines 267-275: expandQueryArray for the entries a, as [err, items]; an
\* entry without property is passed over
ExpandItemsAfter(item, rest) ==
    [err |-> rest.err, items |-> IF Failed(rest.err) THEN <<>> ELSE <<item>> \o rest.items]

RECURSIVE ExpandItems(_, _, _)
ExpandItemsWith(a, fn, cfg, first) ==
    IF Failed(first.err) THEN [err |-> first.err, items |-> <<>>]
    ELSE ExpandItemsAfter(first.item, ExpandItems(Tail(a), fn, cfg))

ExpandItems(a, fn, cfg) ==
    IF a = <<>> THEN [err |-> NoErr, items |-> <<>>]
    ELSE IF ~TruthyStr(Head(a).property) THEN ExpandItems(Tail(a), fn, cfg)
    ELSE ExpandItemsWith(a, fn, cfg,
             ExpandItemOf(Head(a), composeUrl(Head(a), fn \o " $expand", cfg, ";", <<>>)))

\* lines 276-278: $expand is pushed when there is an item
UrlExpandArray(st, r) ==
    IF Failed(r.err) THEN [st EXCEPT !.err = r.err]
    ELSE IF Len(r.items) > 0
    THEN [st EXCEPT !.query = Append(st.query, <<"$expand=">> \o Join(r.items, <<",">>))]
    ELSE st

\* lines 260-280: expand
UrlExpand(st, fn, cfg) ==
    IF Failed(st.err) \/ ~ExpandGiven(st.request.expand) THEN st
    ELSE IF st.request.expand.t = "str"
    THEN [st EXCEPT !.query = Append(st.query, <<"$expand=">> \o st.request.expand.s)]
    ELSE UrlExpandArray(st, ExpandItems(st.request.expand.a, fn, cfg))

\* lines 201-285: composeUrl from the filter on
UrlAfterSelect(st, fn, cfg, joinSymbol) ==
    UrlReturn(UrlExpand(UrlShaping(UrlSavedQueries(UrlFilter(st))), fn, cfg), joinSymbol)

\* RequestUtility.composeUrl: [err, url, request]
composeUrl(req, fn, cfg, joinSymbol, url) ==
    UrlAfterSelect(
        UrlSelect(UrlNavigation([request |-> req, url |-> url, query |-> <<>>, err |-> NoErr]),
                  fn),
        fn, cfg, joinSymbol)

---------------------------------------------------------------------------
(* compose.  Its locals are the record [request, path, err].               *)

\* lines 84-86 left out
ComposeCollectionUnchecked(st) == st

\* lines 84-86: a bound request without url needs a collection
ComposeCollectionCheck(st) ==
    IF ~st.request.isUnboundRequest /\ ~TruthyStr(st.request.collection)
    THEN [st EXCEPT !.err = parameterCheck(st.request.collection, "request.collection")]
    ELSE st

\* lines 89-96 without the test of line 93: every contentId is put in front
ComposeContentIdPrefixAlways(req) ==
    IF TruthyStr(req.contentId)
    THEN Val(req.contentId) \o <<"/">> \o Val(req.collection)
    ELSE Val(req.collection)

\* lines 89-96: the path starts with the collection, behind a `$` contentId
ComposeContentIdPrefix(req) ==
    IF TruthyStr(req.contentId) /\ StartsWith(Val(req.contentId), <<"$">>)
    THEN Val(req.contentId) \o <<"/">> \o Val(req.collection)
    ELSE Val(req.collection)

\* lines 98-108: request.key is assigned from key or from id, then appended
ComposeKey(st) ==
    LET req == st.request
        kc  == IF TruthyStr(req.key) THEN keyParameterCheck(Val(req.key), "request.key")
               ELSE IF TruthyStr(req.id) THEN guidParameterCheck(Val(req.id), "request.id")
               ELSE [err |-> NoErr, value |-> <<>>]
        assigned == TruthyStr(req.key) \/ TruthyStr(req.id)
        key == IF assigned THEN Some(kc.value) ELSE req.key
    IN  IF Failed(kc.err) THEN [st EXCEPT !.err = kc.err]
        ELSE [st EXCEPT !.request.key = key,
                        !.path = IF TruthyStr(key) THEN st.path \o <<"(">> \o Val(key) \o <<")">>
                                 ELSE st.path]

\* lines 87-109
ComposeCollection(st) ==
    IF Failed(st.err) \/ IsNull(st.request.collection) THEN st
    ELSE ComposeKey([st EXCEPT !.path = ComposeContentIdPrefix(st.request)])

\* lines 111-116
ComposeAdditionalUrl(st) ==
    IF Failed(st.err) \/ ~TruthyStr(st.request.additionalUrl) THEN st
    ELSE [st EXCEPT !.path = (IF Len(st.path) > 0 THEN st.path \o <<"/">> ELSE st.path)
                             \o Val(st.request.additionalUrl)]

\* the locals of compose once composeUrl has returned cu (or thrown)
ComposeQueryReturn(cu) == [request |-> cu.request, path |-> cu.url, err |-> cu.err]

\* lines 118 and 129: the query options composed onto the path
ComposeQuery(st, fn, cfg) ==
    IF Failed(st.err) THEN st
    ELSE ComposeQueryReturn(composeUrl(st.request, fn, cfg, "&", st.path))

\* lines 83-116 and 127-128: the path before the query options
ComposeAddress(req, cfg) ==
    IF ~TruthyStr(req.url)
    THEN ComposeAdditionalUrl(ComposeCollection(ComposeCollectionCheck(
             [request |-> req, path |-> <<>>, err |-> NoErr])))
    ELSE [request |-> req,
          path    |-> ReplaceFirst(Val(req.url), Val(cfg).webApiUrl, <<>>),
          err     |-> NoErr]

\* lines 120-124: fetchXml, for a descriptor without url
ComposeFetchXml(st) ==
    IF Failed(st.err) \/ TruthyStr(st.request.url) \/ ~TruthyStr(st.request.fetchXml) THEN st
    ELSE [st EXCEPT !.path = st.path
                             \o <<IF IndexOf(st.path, <<"?">>) = 0 THEN "?" ELSE "&">>
                             \o <<"fetchXml=">>
                             \o encodeURIComponent(Val(st.request.fetchXml))]

\* lines 82-130: the path, and the descriptor as the call leaves it
ComposePath(req, cfg, fn) ==
    ComposeFetchXml(ComposeQuery(ComposeAddress(req, cfg), fn, cfg))

\* lines 132-141: what compose returns from its locals st and the headers hs
ComposeReturn(st, hs) ==
    [err     |-> IF Failed(st.err) THEN st.err ELSE hs.err,
     request |-> st.request,
     path    |-> IF Failed(st.err) \/ Failed(hs.err) THEN <<>> ELSE st.path,
     headers |-> IF Failed(st.err) \/ Failed(hs.err) THEN <<>> ELSE hs.headers,
     async   |-> IF IsNull(st.request.async) THEN TRUE ELSE Val(st.request.async)]

\* lines 132-141 after the path
ComposeFinish(st, cfg, fn) == ComposeReturn(st, composeHeaders(st.request, fn, cfg))

\* RequestUtility.compose: [err, request, path, headers, async]; request is the
\* descriptor object after the call, path/headers/async the converted request
compose(req, cfg, fn) == ComposeFinish(ComposePath(req, cfg, fn), cfg, fn)

---------------------------------------------------------------------------
(* Payload and standard headers *)

\* headers[k] = v on a JavaScript object: an existing key keeps its place
SetHeader(h, k, v) ==
    IF HasHeader(h, k)
    THEN [i \in 1..Len(h) |-> IF h[i][1] = k THEN <<k, v>> ELSE h[i]]
    ELSE Append(h, <<k, v>>)

\* RequestUtility.setStandardHeaders, called without argument
setStandardHeaders ==
    SetHeader(SetHeader(SetHeader(SetHeader(<<>>,
        "Accept", <<"application/json">>),
        "OData-MaxVersion", <<"4.0">>),
        "OData-Version", <<"4.0">>),
        "Content-Type", <<"application/json; charset=utf-8">>)

\* A payload object is a sequence of <<name, value>> fields in insertion order;
\* a name is one atom, or two when it carries a suffix (<<"partner", "@odata.bind">>);
\* a value is a string or an object
JString(s) == [t |-> "string", s |-> s]

JObject(fields) == [t |-> "object", fields |-> fields]

\* the exception of reading a property of null (line 530)
TypeError == [kind |-> "TypeError", param |-> "valueParts"]

\* the characters of [\w\d-]: an atom of a reference that is a name, a number or a GUID
RefPunctuation == {"/", "(", ")", "{", "}", "$", "=", "'", " ", "https://org.api/api/data/v9.0/"}

IsWordAtom(a) == a \notin RefPunctuation

\* /\(\{[\w\d-]+\}\)/ at atom k
BracedKeyAt(s, k) ==
    /\ k >= 1
    /\ k + 4 <= Len(s)
    /\ s[k] = "("
    /\ s[k + 1] = "{"
    /\ IsWordAtom(s[k + 2])
    /\ s[k + 3] = "}"
    /\ s[k + 4] = ")"

\* line 522: the test
HasBracedKey(s) == \E k \in 1..Len(s) : BracedKeyAt(s, k)

\* line 523: value.replace(/(.+)\(\{([\w\d-]+)\}\)/g, '$1($2)').  The greedy
\* (.+) runs to the last braced key that has a character before it; that one
\* loses its braces, and nothing is left to match after it
StripBracesAt(s, k) ==
    IF k = 0 THEN s
    ELSE SubSeq(s, 1, k) \o <<s[k + 2]>> \o SubSeq(s, k + 4, Len(s))

LastBracedKey(s) ==
    LET hits == {k \in 2..Len(s) : BracedKeyAt(s, k)}
    IN  IF hits = {} THEN 0 ELSE CHOOSE k \in hits : \A j \in hits : j <= k

StripBraces(s) == IF HasBracedKey(s) THEN StripBracesAt(s, LastBracedKey(s)) ELSE s

\* RequestUtility.findCollectionName: Null or Some(collection name)
FindByEntityName(names, entityName) ==
    IF \E i \in 1..Len(names) : names[i][1] = entityName
    THEN Some(names[CHOOSE i \in 1..Len(names) : names[i][1] = entityName][2])
    ELSE IF \E i \in 1..Len(names) : names[i][2] = entityName
    THEN Some(entityName)
    ELSE Null

findCollectionName(entityName) ==
    IF IsNull(entityNames) THEN Null ELSE FindByEntityName(Val(entityNames), entityName)

\* line 528-529: /([\w_]+)(\([\d\w-]+\))$/ matches the end of the value
EntityKeyAtEnd(s) ==
    /\ Len(s) >= 4
    /\ IsWordAtom(s[Len(s) - 3])
    /\ s[Len(s) - 2] = "("
    /\ IsWordAtom(s[Len(s) - 1])
    /\ s[Len(s)] = ")"

\* lines 531-535: the entity name replaced by the collection name found
WithCollectionName(s, found) ==
    IF IsNull(found) THEN s
    ELSE SubSeq(s, 1, Len(s) - 4) \o <<Val(found)>> \o SubSeq(s, Len(s) - 2, Len(s))

\* lines 526-537: [err, value]; exec returns null when the value does not end
\* in name(key), and valueParts.length then throws
UseEntityNames(s, cfg) ==
    IF ~cfg.useEntityNames THEN [err |-> NoErr, value |-> s]
    ELSE IF ~EntityKeyAtEnd(s) THEN [err |-> TypeError, value |-> s]
    ELSE [err |-> NoErr, value |-> WithCollectionName(s, findCollectionName(s[Len(s) - 3]))]

\* lines 539-549: the prefix
RefPrefix(name, s, cfg) ==
    IF StartsWith(s, cfg.webApiUrl) THEN s
    ELSE IF EndsWith(name, <<"@odata.bind">>)
    THEN (IF StartsWith(s, <<"/">>) THEN s ELSE <<"/">> \o s)
    ELSE cfg.webApiUrl \o (IF StartsWith(s, <<"/">>) THEN Tail(s) ELSE s)

IsReferenceName(name) == EndsWith(name, <<"@odata.bind">>) \/ EndsWith(name, <<"@odata.id">>)

\* lines 553-556: the names of client-only annotation fields
IsAnnotationName(name) ==
    \/ StartsWith(name, <<"oData">>)
    \/ EndsWith(name, <<"_Formatted">>)
    \/ EndsWith(name, <<"_NavigationProperty">>)
    \/ EndsWith(name, <<"_LogicalName">>)

\* lines 520-550 once useEntityNames returned u
ReferenceAfter(name, u, cfg) ==
    [err |-> u.err, value |-> IF Failed(u.err) THEN <<>> ELSE RefPrefix(name, u.value, cfg)]

\* lines 520-550: the replacer on a string value of a reference field, [err, value]
ReferenceValue(name, s, cfg) ==
    IF StartsWith(s, <<"$">>) THEN [err |-> NoErr, value |-> s]
    ELSE ReferenceAfter(name, UseEntityNames(StripBraces(s), cfg), cfg)

\* line 563-565: a character from \u007F on becomes its \uXXXX escape
EscapeAtom(a) == IF a = "é" THEN "\\u00e9" ELSE a

EscapeNonAscii(text) == [i \in 1..Len(text) |-> EscapeAtom(text[i])]

\* JSON.stringify with the replacer of lines 517-561: [err, text] of an object.
\* A field the replacer answers undefined for is left out.
RECURSIVE StringifyFields(_, _)
JsonMember(name, r) ==
    [err |-> r.err, texts |-> IF Failed(r.err) THEN <<>>
                              ELSE << <<"\"">> \o name \o <<"\"", ":">> \o r.text >>]

JsonObjectText(r) ==
    [err |-> r.err, text |-> IF Failed(r.err) THEN <<>>
                             ELSE <<"{">> \o Join(r.texts, <<",">>) \o <<"}">>]

JsonStringText(r) ==
    [err |-> r.err, text |-> IF Failed(r.err) THEN <<>> ELSE <<"\"">> \o r.value \o <<"\"">>]

\* the members one field gives: none, or `"name":value`
StringifyField(f, cfg) ==
    IF IsReferenceName(f[1])
    THEN (IF f[2].t = "string"
          THEN JsonMember(f[1], JsonStringText(ReferenceValue(f[1], f[2].s, cfg)))
          ELSE JsonMember(f[1], JsonObjectText(StringifyFields(f[2].fields, cfg))))
    ELSE IF IsAnnotationName(f[1]) THEN [err |-> NoErr, texts |-> <<>>]
    ELSE IF f[2].t = "string"
    THEN JsonMember(f[1], JsonStringText([err |-> NoErr, value |-> f[2].s]))
    ELSE JsonMember(f[1], JsonObjectText(StringifyFields(f[2].fields, cfg)))

StringifyRest(first, rest) ==
    IF Failed(first.err) THEN first
    ELSE [err |-> rest.err, texts |-> IF Failed(rest.err) THEN <<>> ELSE first.texts \o rest.texts]

StringifyNext(fields, cfg, first) ==
    IF Failed(first.err) THEN first
    ELSE StringifyRest(first, StringifyFields(Tail(fields), cfg))

StringifyFields(fields, cfg) ==
    IF fields = <<>> THEN [err |-> NoErr, texts |-> <<>>]
    ELSE StringifyNext(fields, cfg, StringifyField(Head(fields), cfg))

StringifyEscaped(r) == [err |-> r.err, text |-> EscapeNonAscii(r.text)]

\* RequestUtility.stringifyData for a payload object: [err, text]
stringifyData(data, cfg) ==
    StringifyEscaped(JsonObjectText(StringifyFields(data, Val(cfg))))

\* Utility.generateUUID: the n-th UUID generated, each one new
generateUUID(n) == <<"uuid", ToString(n)>>

---------------------------------------------------------------------------
(* convertToBatch: what one visit of forEach pushes onto batchBody *)

\* lines 423-429: a GET ends the open change-set
BatchEndChangeSet(isGet, cs) ==
    IF isGet /\ ~IsNull(cs) THEN << <<"\n", "--">> \o Val(cs) \o <<"--">> >> ELSE <<>>

\* lines 423-429 without line 427: the change-set a GET ended stays current
BatchAfterEndStaysOpen(isGet, cs) == cs

\* the open change-set after lines 423-429
BatchAfterEnd(isGet, cs) == IF isGet /\ ~IsNull(cs) THEN Null ELSE cs

\* lines 431-438: the outer delimiter and, for a non-GET, a new change-set
BatchOpen(isGet, cs, boundary, fresh) ==
    IF ~IsNull(cs) THEN <<>>
    ELSE << <<"\n", "--">> \o boundary >>
         \o (IF ~isGet
             THEN << <<"Content-Type: multipart/mixed;boundary=">> \o fresh >>
             ELSE <<>>)

\* lines 440-445: the inner delimiter of a non-GET and the two part headers
BatchPartHead(isGet, cs) ==
    (IF ~isGet THEN << <<"\n", "--">> \o Val(cs) >> ELSE <<>>)
    \o << <<"Content-Type: application/http">>, <<"Content-Transfer-Encoding: binary">> >>

\* lines 447-453: the Content-ID line of a non-GET
BatchContentId(isGet, headers, counter) ==
    IF isGet THEN <<>>
    ELSE << <<"Content-ID: ">> \o
            (IF HasHeader(headers, "Content-ID") THEN Header(headers, "Content-ID")
             ELSE <<ToString(counter + 1)>>) >>

\* lines 455-467: the request line and the Accept / Content-Type line
BatchRequestLine(method, isGet, path, cfg) ==
    << <<"\n", method, " ">>
       \o (IF ~StartsWith(path, <<"$">>) THEN Val(cfg).webApiUrl ELSE <<>>)
       \o path \o <<" HTTP/1.1">>,
       IF isGet THEN <<"Accept: application/json">> ELSE <<"Content-Type: application/json">> >>

\* lines 469-474: every composed header but Authorization and Content-ID
RECURSIVE BatchHeaderLines(_)
BatchHeaderLines(headers) ==
    IF headers = <<>> THEN <<>>
    ELSE (IF Head(headers)[1] \in {"Authorization", "Content-ID"} THEN <<>>
          ELSE << <<Head(headers)[1], ": ">> \o Head(headers)[2] >>)
         \o BatchHeaderLines(Tail(headers))

\* lines 476-480: the payload of a non-GET
BatchData(isGet, req, cfg) ==
    LET data == IF ~IsNull(req.data) THEN req.data ELSE req.entity
    IN  IF ~isGet /\ ~IsNull(data) THEN << <<"\n">> \o stringifyData(Val(data), cfg).text >> ELSE <<>>

\* line 479: the exception stringifyData leaves the visit with, NoErr when none
BatchDataError(isGet, req, cfg) ==
    LET data == IF ~IsNull(req.data) THEN req.data ELSE req.entity
    IN  IF ~isGet /\ ~IsNull(data) THEN stringifyData(Val(data), cfg).err ELSE NoErr

\* lines 421 and 479: the exception that ends the visit of a part whose
\* compose returned r, NoErr when the visit completes
BatchVisitError(part, r, cfg) ==
    IF Failed(r.err) THEN r.err ELSE BatchDataError(part.method = "GET", r.request, cfg)

\* line 415 and line 428: the value the content-ID counter starts from
ContentIdStart == 100000

\* lines 428 and 450 without line 428: a GET does not reset the counter
BatchNextContentIdNoReset(isGet, cs, headers, counter) ==
    IF isGet \/ HasHeader(headers, "Content-ID") THEN counter ELSE counter + 1

\* lines 428 and 450: the counter after the visit of one part
BatchNextContentId(isGet, cs, headers, counter) ==
    IF isGet THEN (IF ~IsNull(cs) THEN ContentIdStart ELSE counter)
    ELSE IF HasHeader(headers, "Content-ID") THEN counter
    ELSE counter + 1

\* lines 423-480: everything one visit pushes, for a part whose compose returned r
BatchVisit(part, r, cs, boundary, counter, fresh, cfg) ==
    LET isGet == part.method = "GET"
        cs1   == BatchAfterEnd(isGet, cs)
        cs2   == IF IsNull(cs1) /\ ~isGet THEN Some(fresh) ELSE cs1
    IN  BatchEndChangeSet(isGet, cs)
        \o BatchOpen(isGet, cs1, boundary, fresh)
        \o BatchPartHead(isGet, cs2)
        \o BatchContentId(isGet, r.headers, counter)
        \o BatchRequestLine(part.method, isGet, r.path, cfg)
        \o BatchHeaderLines(r.headers)
        \o BatchData(isGet, r.request, cfg)

---------------------------------------------------------------------------
(* Inputs *)

\* the largest number of entries of a select list
MaxSelect == 2

\* the largest number of parts of a batch
MaxParts == 3

WebApiUrl == <<"https://org.api/api/data/v9.0/">>

Guid1 == <<"00000000-0000-0000-0000-000000000001">>

\* all sequences over S of length 0..n
SeqsUpTo(S, n) == UNION {[1..k -> S] : k \in 0..n}

\* a Config with no defaults set
BaseConfig ==
    [webApiUrl |-> WebApiUrl, returnRepresentation |-> Null, includeAnnotations |-> Null,
     maxPageSize |-> Null, useEntityNames |-> FALSE]

\* a descriptor with every field absent
BaseRequest ==
    [url |-> Null, isUnboundRequest |-> FALSE, collection |-> Null, contentId |-> Null,
     key |-> Null, id |-> Null, additionalUrl |-> Null,
     navigationProperty |-> Null, navigationPropertyKey |-> Null,
     metadataAttributeType |-> Null, select |-> Null,
     savedQuery |-> Null, userQuery |-> Null, apply |-> Null, count |-> Null,
     top |-> Null, orderBy |-> Null, async |-> Null,
     ifmatch |-> Null, ifnonematch |-> Null, impersonate |-> Null, token |-> Null,
     duplicateDetection |-> Null, noCache |-> Null, mergeLabels |-> Null,
     returnRepresentation |-> Null, includeAnnotations |-> Null, maxPageSize |-> Null,
     trackChanges |-> Null, prefer |-> NoPrefer, data |-> Null, entity |-> Null,
     filter |-> Null, expand |-> NoExpand, fetchXml |-> Null, property |-> Null]

RequestFields == DOMAIN BaseRequest

\* the entries a select list is made of
SelectEntries == {<<"name">>, <<"/", "contacts">>, <<"contact", "/", "$ref">>}

Selects == {Null} \cup {Some(l) : l \in SeqsUpTo(SelectEntries, MaxSelect)}

\* key and id: absent, an alternate key written with double quotes, a GUID, malformed
KeyIds ==
    {<<Null, Null>>,
     <<Some(<<"name", "=", "\"", "x", "\"">>), Null>>,
     <<Some(<<"bad key">>), Null>>,
     <<Null, Some(Guid1)>>,
     <<Null, Some(<<"not-a-guid">>)>>,
     <<Some(<<"name", "=", "\"", "x", "\"">>), Some(Guid1)>>}

ContentIds == {Null, Some(<<"1">>), Some(<<"$", "1">>)}

\* further options, all absent or all set
Extras ==
    {[additionalUrl |-> Null, top |-> Null, count |-> Null, orderBy |-> Null,
      savedQuery |-> Null, token |-> Null, noCache |-> Null, async |-> Null],
     [additionalUrl |-> Some(<<"Microsoft.Dynamics.CRM.WinOpportunity">>),
      top |-> Some(5), count |-> Some(TRUE), orderBy |-> Some(<< <<"name">>, <<"createdon">> >>),
      savedQuery |-> Some(Guid1), token |-> Some(<<"token001">>), noCache |-> Some(TRUE),
      async |-> Some(FALSE)]}

\* the descriptor built from one choice for each field that varies
ComposeDescriptor(u, ub, c, cid, ki, nav, sel, im, inm, x) ==
    [BaseRequest EXCEPT
        !.url = u, !.isUnboundRequest = ub, !.collection = c, !.contentId = cid,
        !.key = ki[1], !.id = ki[2], !.navigationProperty = nav, !.select = sel,
        !.ifmatch = im, !.ifnonematch = inm,
        !.additionalUrl = x.additionalUrl, !.top = x.top, !.count = x.count,
        !.orderBy = x.orderBy, !.savedQuery = x.savedQuery, !.token = x.token,
        !.noCache = x.noCache, !.async = x.async]

FunctionNames == {"retrieve", "retrieveMultiple"}

---------------------------------------------------------------------------
(* A caller of compose *)

\* the variables of convertToBatch, not in use
\* an XMLHttpRequest object before open()
XhrUnsent ==
    [readyState |-> 0, status |-> 0, headers |-> <<>>, responseText |-> <<>>,
     event |-> "none"]

\* no xhrRequest call is under way
XhrIdle ==
    /\ xmlHttpRequest = XhrUnsent
    /\ released = FALSE
    /\ timeout = 0
    /\ responseParams = <<>>
    /\ callbacks = <<>>
    /\ thrown = NoErr

BatchIdle ==
    /\ requests = <<>>
    /\ idx = 0
    /\ batchBoundary = <<>>
    /\ batchBody = <<>>
    /\ currentChangeSet = Null
    /\ contentId = 0
    /\ uuidCount = 0

InitCompose ==
    /\ entityNames = Null
    /\ XhrIdle
    /\ call = "compose"
    /\ pc = "ready"
    /\ functionName \in FunctionNames
    /\ config = Some(BaseConfig)
    /\ \E u \in {Null, Some(WebApiUrl \o <<"accounts">>)}, ub \in BOOLEAN,
          c \in {Null, Some(<<"accounts">>)}, cid \in ContentIds, ki \in KeyIds,
          nav \in {Null, Some(<<"primarycontactid">>)}, sel \in Selects,
          im \in {Null, Some(<<"*">>)}, inm \in {Null, Some(<<"*">>)}, x \in Extras :
            request = ComposeDescriptor(u, ub, c, cid, ki, nav, sel, im, inm, x)
    /\ given = request
    /\ result = Null
    /\ error = NoErr
    /\ BatchIdle

\* compose(request, config, functionName) returns or throws
Compose ==
    /\ call = "compose"
    /\ pc = "ready"
    /\ \E r \in {compose(request, config, functionName)} :
           /\ request' = r.request
           /\ error' = r.err
           /\ pc' = IF Failed(r.err) THEN "thrown" ELSE "returned"
           /\ result' = IF Failed(r.err) THEN Null
                        ELSE Some([path |-> r.path, headers |-> r.headers, async |-> r.async])
    /\ UNCHANGED <<xhrVars, entityNames, call, functionName, config, given, requests, idx, batchBoundary, batchBody,
                   currentChangeSet, contentId, uuidCount>>

NextCompose == Compose

SpecCompose == InitCompose /\ [][NextCompose]_vars

---------------------------------------------------------------------------
(* A caller of composePreferHeader *)

\* the largest number of directives in a prefer option
MaxPrefer == 2

\* the directives a prefer option is made of
PreferTokens ==
    {<<"return=representation">>,
     <<"odata.include-annotations=", "\"", "*", "\"">>,
     <<"odata.maxpagesize=", "10">>,
     <<"odata.track-changes">>}

\* a prefer option: absent, a sequence of directives, or the same comma-joined
Prefers ==
    {NoPrefer}
    \cup {PreferArr(a) : a \in SeqsUpTo(PreferTokens, MaxPrefer)}
    \cup {PreferStr(Join(a, <<",">>)) : a \in SeqsUpTo(PreferTokens, MaxPrefer)}

\* a Config with every Prefer default set
FullConfig ==
    [BaseConfig EXCEPT !.returnRepresentation = Some(TRUE),
                       !.includeAnnotations = Some(<<"OData.Community.Display.V1.FormattedValue">>),
                       !.maxPageSize = Some(10)]

InitPrefer ==
    /\ entityNames = Null
    /\ XhrIdle
    /\ call = "composePreferHeader"
    /\ pc = "ready"
    /\ functionName = "retrieveMultiple"
    /\ config \in {Null, Some(BaseConfig), Some(FullConfig)}
    /\ \E rr \in {Null, Some(TRUE), Some(FALSE)}, ia \in {Null, Some(<<>>), Some(<<"*">>)},
          mps \in {Null, Some(0), Some(5)}, tc \in {Null, Some(TRUE)}, p \in Prefers :
            request = [BaseRequest EXCEPT !.returnRepresentation = rr,
                                          !.includeAnnotations = ia, !.maxPageSize = mps,
                                          !.trackChanges = tc, !.prefer = p]
    /\ given = request
    /\ result = Null
    /\ error = NoErr
    /\ BatchIdle

\* composePreferHeader(request, functionName, config) returns
ComposePreferHeader ==
    /\ call = "composePreferHeader"
    /\ pc = "ready"
    /\ result' = Some(composePreferHeader(request, config))
    /\ pc' = "returned"
    /\ UNCHANGED <<xhrVars, entityNames, call, functionName, config, request, given, error, requests, idx, batchBoundary,
                   batchBody, currentChangeSet, contentId, uuidCount>>

NextPrefer == ComposePreferHeader

SpecPrefer == InitPrefer /\ [][NextPrefer]_vars

---------------------------------------------------------------------------
(* A caller of convertToBatch *)

BatchMethods == {"GET", "POST"}

\* the descriptors of batch parts: a plain one with a payload, one with its own
\* content ID, one addressed through a `$` back-reference, one without collection
BatchDescriptors ==
    {[BaseRequest EXCEPT !.collection = Some(<<"accounts">>),
                         !.data = Some(<< << <<"name">>, JString(<<"x">>) >> >>)],
     [BaseRequest EXCEPT !.collection = Some(<<"contacts">>), !.contentId = Some(<<"7">>),
                         !.id = Some(Guid1), !.ifmatch = Some(<<"*">>),
                         !.token = Some(<<"token001">>)],
     [BaseRequest EXCEPT !.collection = Some(<<"tasks">>), !.contentId = Some(<<"$", "1">>),
                         !.entity = Some(<< << <<"subject">>, JString(<<"y">>) >> >>)],
     BaseRequest}

BatchParts == {[method |-> m, request |-> d] : m \in BatchMethods, d \in BatchDescriptors}

InitBatch ==
    /\ entityNames = Null
    /\ XhrIdle
    /\ call = "convertToBatch"
    /\ pc = "ready"
    /\ functionName = "executeBatch"
    /\ config = Some(BaseConfig)
    /\ request = BaseRequest
    /\ requests \in SeqsUpTo(BatchParts, MaxParts)
    /\ given = requests
    /\ result = Null
    /\ error = NoErr
    /\ idx = 0
    /\ batchBoundary = <<>>
    /\ batchBody = <<>>
    /\ currentChangeSet = Null
    /\ contentId = 0
    /\ uuidCount = 0

\* lines 411-415: the locals of convertToBatch
BatchStart ==
    /\ call = "convertToBatch"
    /\ pc = "ready"
    /\ batchBoundary' = <<"dwa_batch_">> \o generateUUID(uuidCount + 1)
    /\ uuidCount' = uuidCount + 1
    /\ batchBody' = <<>>
    /\ currentChangeSet' = Null
    /\ contentId' = ContentIdStart
    /\ idx' = 1
    /\ pc' = "loop"
    /\ UNCHANGED <<xhrVars, entityNames, call, functionName, config, request, given, result, error, requests>>

\* lines 418-480: forEach visits the next part and compose returns
BatchPart ==
    /\ pc = "loop"
    /\ idx <= Len(requests)
    /\ \E r \in {compose(requests[idx].request, config, functionName)},
          isGet \in {requests[idx].method = "GET"},
          fresh \in {<<"changeset_">> \o generateUUID(uuidCount + 1)} :
           /\ ~Failed(BatchVisitError(requests[idx], r, config))
           /\ requests' = [requests EXCEPT ![idx].request = r.request]
           /\ batchBody' = batchBody \o BatchVisit(requests[idx], r, currentChangeSet,
                                                   batchBoundary, contentId, fresh, config)
           /\ \E opens \in {~isGet /\ IsNull(BatchAfterEnd(isGet, currentChangeSet))} :
                  /\ currentChangeSet' = IF opens THEN Some(fresh)
                                         ELSE BatchAfterEnd(isGet, currentChangeSet)
                  /\ uuidCount' = IF opens THEN uuidCount + 1 ELSE uuidCount
           /\ contentId' = BatchNextContentId(isGet, currentChangeSet, r.headers, contentId)
    /\ idx' = idx + 1
    /\ UNCHANGED <<xhrVars, entityNames, call, pc, functionName, config, request, given, result, error, batchBoundary>>

\* line 421 or 479: compose or stringifyData throws; the exception leaves
\* forEach and convertToBatch
BatchPartThrows ==
    /\ pc = "loop"
    /\ idx <= Len(requests)
    /\ \E r \in {compose(requests[idx].request, config, functionName)} :
           /\ Failed(BatchVisitError(requests[idx], r, config))
           /\ requests' = [requests EXCEPT ![idx].request = r.request]
           /\ error' = BatchVisitError(requests[idx], r, config)
    /\ pc' = "thrown"
    /\ UNCHANGED <<xhrVars, entityNames, call, functionName, config, request, given, result, idx, batchBoundary, batchBody,
                   currentChangeSet, contentId, uuidCount>>

\* lines 483-487 without lines 483-485: the last change-set is left open
BatchCloseOuterOnly(cs, boundary) == << <<"\n", "--">> \o boundary \o <<"--">> >>

\* lines 483-487: the delimiters pushed after the loop
BatchClose(cs, boundary) ==
    (IF ~IsNull(cs) THEN << <<"\n", "--">> \o Val(cs) \o <<"--">> >> ELSE <<>>)
    \o << <<"\n", "--">> \o boundary \o <<"--">> >>

\* lines 483-492: after the loop
BatchFinish ==
    /\ pc = "loop"
    /\ idx > Len(requests)
    /\ batchBody' = batchBody \o BatchClose(currentChangeSet, batchBoundary)
    /\ result' = Some([headers |-> SetHeader(setStandardHeaders, "Content-Type",
                                            <<"multipart/mixed;boundary=">> \o batchBoundary),
                       body    |-> Join(batchBody', <<"\n">>)])
    /\ pc' = "returned"
    /\ UNCHANGED <<xhrVars, entityNames, call, functionName, config, request, given, error, requests, idx, batchBoundary,
                   currentChangeSet, contentId, uuidCount>>

NextBatch == BatchStart \/ BatchPart \/ BatchPartThrows \/ BatchFinish

SpecBatch == InitBatch /\ [][NextBatch]_vars

---------------------------------------------------------------------------
(* A caller of composeUrl, with the arguments compose passes at line 118 *)

\* the largest number of parts a filter is put together from
MaxFilterParts == 4

\* the largest number of entries of a top-level expand
MaxExpand == 2

\* the deepest nesting of expand inside expand
MaxDepth == 2

\* the parts of a filter: single characters and a braced GUID
FilterParts ==
    {<<"a">>, <<" ">>, <<",">>, <<")">>, <<"'">>,
     <<"{", "00000000-0000-0000-0000-000000000001", "}">>}

RECURSIVE Concat(_)
Concat(parts) == IF parts = <<>> THEN <<>> ELSE Head(parts) \o Concat(Tail(parts))

Filters == {Concat(ps) : ps \in SeqsUpTo(FilterParts, MaxFilterParts)}

\* sub-descriptors that expand nothing themselves: without options, with
\* options, and one that carries no property name
ExpandLeaves ==
    {[BaseRequest EXCEPT !.property = Some(<<"contacts">>)],
     [BaseRequest EXCEPT !.property = Some(<<"owner">>),
                         !.select = Some(<< <<"name">>, <<"/", "id">> >>),
                         !.top = Some(5),
                         !.filter = Some(<<"a", " ", "{", "00000000-0000-0000-0000-000000000002", "}">>)],
     [BaseRequest EXCEPT !.select = Some(<< <<"name">> >>)]}

\* the sub-descriptor that expands others
ExpandNode(inner) ==
    [BaseRequest EXCEPT !.property = Some(<<"parent">>),
                        !.orderBy = Some(<< <<"name">> >>),
                        !.expand = ExpandArr(inner)]

\* the sub-descriptors nested at most d deep
RECURSIVE ExpandEntries(_)
ExpandEntries(d) ==
    IF d = 0 THEN ExpandLeaves
    ELSE ExpandLeaves
         \cup {ExpandNode(<<n>>) : n \in ExpandEntries(d - 1)}
         \cup {ExpandNode(<<[BaseRequest EXCEPT !.property = Some(<<"contacts">>)], n>>) :
                   n \in ExpandEntries(d - 1)}

Expands ==
    {ExpandStr(<<"contacts">>)}
    \cup {ExpandArr(a) : a \in SeqsUpTo(ExpandEntries(MaxDepth), MaxExpand)}

\* the top-level options beside filter and expand, absent or set
UrlOptions ==
    {[select |-> Null, top |-> Null],
     [select |-> Some(<< <<"name">>, <<"createdon">> >>), top |-> Some(5)]}

UrlDescriptors ==
    {[BaseRequest EXCEPT !.filter = Some(f)] : f \in Filters}
    \cup {[BaseRequest EXCEPT !.expand = e, !.select = o.select, !.top = o.top] :
              e \in Expands, o \in UrlOptions}

InitUrl ==
    /\ entityNames = Null
    /\ XhrIdle
    /\ call = "composeUrl"
    /\ pc = "ready"
    /\ functionName \in FunctionNames
    /\ config = Some(BaseConfig)
    /\ request \in UrlDescriptors
    /\ given = request
    /\ result = Null
    /\ error = NoErr
    /\ BatchIdle

\* composeUrl(request, functionName, config, "&", "accounts") returns or throws
ComposeUrl ==
    /\ call = "composeUrl"
    /\ pc = "ready"
    /\ \E r \in {composeUrl(request, functionName, config, "&", <<"accounts">>)} :
           /\ request' = r.request
           /\ error' = r.err
           /\ pc' = IF Failed(r.err) THEN "thrown" ELSE "returned"
           /\ result' = IF Failed(r.err) THEN Null ELSE Some(r.url)
    /\ UNCHANGED <<xhrVars, entityNames, call, functionName, config, given, requests, idx, batchBoundary, batchBody,
                   currentChangeSet, contentId, uuidCount>>

NextUrl == ComposeUrl

SpecUrl == InitUrl /\ [][NextUrl]_vars

---------------------------------------------------------------------------
(* A caller of stringifyData *)

\* the deepest nesting of an object inside the payload
MaxNest == 2

\* what a reference starts with: nothing, a slash, the base URL
RefStarts == {<<>>, <<"/">>, WebApiUrl}

\* what a reference addresses: a key without braces, a key in braces, two keys
\* in braces, an alternate key
RefTargets ==
    {<<"accounts", "(", "00000000-0000-0000-0000-000000000001", ")">>,
     <<"account", "(", "{", "00000000-0000-0000-0000-000000000001", "}", ")">>,
     <<"accounts", "(", "{", "00000000-0000-0000-0000-000000000001", "}", ")", "/",
       "contacts", "(", "{", "00000000-0000-0000-0000-000000000002", "}", ")">>,
     <<"accounts", "(", "number", "=", "'", "x", "'", ")">>}

\* the values of a reference field: addresses, and a `$` back-reference
RefValues == {b \o t : b \in RefStarts, t \in RefTargets} \cup {<<"$", "1">>}

RefNames == {<<"partner", "@odata.bind">>, <<"ref", "@odata.id">>}

\* the payloads with one reference field, d objects deep
RECURSIVE Payloads(_)
Payloads(d) ==
    IF d = 0
    THEN {<< << <<"name">>, JString(<<"é">>) >>, <<n, JString(v)>> >> :
              n \in RefNames, v \in RefValues}
         \cup {<< <<n, JString(v)>>, << <<"name", "_Formatted">>, JString(<<"x">>) >> >> :
                   n \in RefNames, v \in RefValues}
    ELSE {<< << <<"subject">>, JString(<<"y">>) >>, << <<"regarding">>, JObject(inner) >> >> :
              inner \in Payloads(d - 1)}

\* the entity names a client has loaded
LoadedEntityNames == << <<"account", "accounts">>, <<"contact", "contacts">> >>

InitStringify ==
    /\ entityNames \in {Null, Some(LoadedEntityNames)}
    /\ XhrIdle
    /\ call = "stringifyData"
    /\ pc = "ready"
    /\ functionName = "create"
    /\ \E u \in BOOLEAN : config = Some([BaseConfig EXCEPT !.useEntityNames = u])
    /\ request = BaseRequest
    /\ \E d \in 0..MaxNest : given \in Payloads(d)
    /\ result = Null
    /\ error = NoErr
    /\ BatchIdle

\* stringifyData(data, config) returns or throws
StringifyData ==
    /\ call = "stringifyData"
    /\ pc = "ready"
    /\ \E r \in {stringifyData(given, config)} :
           /\ error' = r.err
           /\ pc' = IF Failed(r.err) THEN "thrown" ELSE "returned"
           /\ result' = IF Failed(r.err) THEN Null ELSE Some(r.text)
    /\ UNCHANGED <<xhrVars, entityNames, call, functionName, config, request, given, requests, idx,
                   batchBoundary, batchBody, currentChangeSet, contentId, uuidCount>>

NextStringify == StringifyData

SpecStringify == InitStringify /\ [][NextStringify]_vars

---------------------------------------------------------------------------
(* xhrRequest: one XMLHttpRequest and its three handlers.  The transport   *)
(* moves the object through readyState 1, 2, 3, 4 and fires                *)
(* readystatechange at each change; a network failure or a timeout sets    *)
(* readyState 4 with status 0, fires readystatechange and then error or    *)
(* timeout.  A handler runs to its end, or to its first exception, in one  *)
(* step.                                                                   *)

\* reading a property of the closure variable `request` when it is null
NullTypeError(property) == [kind |-> "TypeError", param |-> property]

\* parseResponse rejects the body
ParseError == [kind |-> "ParseError", param |-> "responseText"]

Undefined == [t |-> "undefined"]

\* parseResponseHeaders: the raw header lines as an object
parseResponseHeaders(raw) == [i \in 1..Len(raw) |-> <<raw[i][1], raw[i][3]>>]

\* the response is a multipart batch response
IsBatchResponse(responseHeaders) ==
    /\ HasHeader(responseHeaders, "Content-Type")
    /\ StartsWith(Header(responseHeaders, "Content-Type"), <<"multipart/mixed">>)

\* the text is one JSON object with one member
IsJsonObject(text) ==
    Len(text) = 5 /\ text[1] = "{" /\ text[3] = ":" /\ text[5] = "}"

\* the parts of a batch response: the lines that are not boundary lines
BatchResponseParts(text) == SelectSeq(text, LAMBDA l : l # "--batchresponse")

\* parseResponse(responseText, responseHeaders, responseParams): [threw, value]
parseResponse(text, responseHeaders, params) ==
    IF Len(text) = 0 THEN [threw |-> FALSE, value |-> Undefined]
    ELSE IF IsBatchResponse(responseHeaders)
    THEN [threw |-> FALSE, value |-> [t |-> "array", items |-> BatchResponseParts(text)]]
    ELSE IF IsJsonObject(text)
    THEN [threw |-> FALSE, value |-> [t |-> "object", fields |-> << <<text[2], text[4]>> >>]]
    ELSE [threw |-> TRUE, value |-> Undefined]

\* request.statusText
StatusText(status) ==
    CASE status = 200 -> "OK"
      [] status = 201 -> "Created"
      [] status = 204 -> "No Content"
      [] status = 304 -> "Not Modified"
      [] status = 400 -> "Bad Request"
      [] status = 404 -> "Not Found"
      [] status = 500 -> "Internal Server Error"
      [] OTHER -> ""

\* ErrorHelper.handleHttpError(parsedError, parameters): the error normalized to
\* message, status and statusText; parsedError and parameters are optional
handleHttpError(parsedError, parameters) ==
    [message    |-> IF IsNull(parsedError) THEN Null ELSE Val(parsedError).message,
     status     |-> IF ~IsNull(parameters) THEN Some(Val(parameters).status)
                    ELSE IF IsNull(parsedError) THEN Null ELSE Val(parsedError).status,
     statusText |-> IF ~IsNull(parameters) THEN Some(Val(parameters).statusText)
                    ELSE IF IsNull(parsedError) THEN Null ELSE Val(parsedError).statusText]

\* what one run of a handler did: the closure variable and responseParams after
\* it, the callbacks it invoked, and the exception that left it
HandlerDid(rel, params, calls, e) ==
    [released |-> rel, responseParams |-> params, calls |-> calls, thrown |-> e]

\* lines 79-80 after the switch: request = null; responseParams.length = 0
ReleaseAfter(calls) == HandlerDid(TRUE, <<>>, calls, NoErr)

Invocation(callback, argument) == [callback |-> callback, argument |-> argument]

\* lines 39-49 once the headers and the body are parsed
SuccessParsed(o, params, responseHeaders, r) ==
    IF r.threw THEN HandlerDid(FALSE, params, <<>>, ParseError)
    ELSE ReleaseAfter(<<Invocation("successCallback",
                                   [data |-> r.value, headers |-> responseHeaders,
                                    status |-> o.status])>>)

\* lines 35-50: the case of 200, 201, 204 and 304
SuccessCase(o, params) ==
    SuccessParsed(o, params, parseResponseHeaders(o.headers),
                  parseResponse(o.responseText, parseResponseHeaders(o.headers), params))

\* lines 62-69: the catch block
CaughtError(o) ==
    IF Len(o.responseText) > 0
    THEN [message |-> Some(o.responseText), status |-> Null, statusText |-> Null]
    ELSE [message |-> Some(<<"Unexpected Error">>), status |-> Null, statusText |-> Null]

\* line 61: errorParsed.error, undefined when the object has no such member
ErrorMember(value) ==
    IF HasHeader(value.fields, "error")
    THEN Some([message |-> Some(<<Header(value.fields, "error")>>), status |-> Null,
               statusText |-> Null])
    ELSE Null

\* lines 53-69: the local `error` after the try statement
ErrorLocal(o, r) ==
    IF r.threw \/ r.value.t = "undefined" THEN Some(CaughtError(o))
    ELSE ErrorMember(r.value)

\* lines 52-76 once the body is parsed
DefaultParsed(o, r) ==
    IF ~r.threw /\ r.value.t = "array"
    THEN ReleaseAfter(<<Invocation("errorCallback", r.value)>>)
    ELSE ReleaseAfter(<<Invocation("errorCallback",
                         handleHttpError(ErrorLocal(o, r),
                                         Some([status |-> o.status,
                                               statusText |-> StatusText(o.status)])))>>)

\* lines 51-76: the default case
DefaultCase(o, params) ==
    DefaultParsed(o, parseResponse(o.responseText, parseResponseHeaders(o.headers), params))

XhrSuccessStatuses == {200, 201, 204, 304}

\* lines 32-82: request.onreadystatechange with the object in state o
onreadystatechange(o, rel, params) ==
    IF rel THEN HandlerDid(rel, params, <<>>, NullTypeError("readyState"))
    ELSE IF o.readyState # 4 THEN HandlerDid(rel, params, <<>>, NoErr)
    ELSE IF o.status \in XhrSuccessStatuses THEN SuccessCase(o, params)
    ELSE DefaultCase(o, params)

\* lines 89-93 and 99-103: the object handed to handleHttpError
TransportFailure(o, message) ==
    [status |-> Some(o.status), statusText |-> Some(StatusText(o.status)),
     message |-> Some(IF Len(o.responseText) > 0 THEN o.responseText ELSE message)]

\* lines 88-96 (request.onerror) and 98-106 (request.ontimeout) with their message
FailureHandler(o, rel, params, message) ==
    IF rel THEN HandlerDid(rel, params, <<>>, NullTypeError("status"))
    ELSE ReleaseAfter(<<Invocation("errorCallback",
                         handleHttpError(Some(TransportFailure(o, message)), Null))>>)

\* lines 88-96: request.onerror
onerror(o, rel, params) == FailureHandler(o, rel, params, <<"Network Error">>)

\* lines 98-106: request.ontimeout
ontimeout(o, rel, params) == FailureHandler(o, rel, params, <<"Request Timed Out">>)

\* what a server answers
XhrStatuses == {200, 201, 204, 304, 400, 404, 500}

XhrHeaders ==
    { << <<"Content-Type", ": ", <<"application/json">>>> >>,
      << <<"Content-Type", ": ", <<"multipart/mixed", ";", "boundary=batchresponse">>>> >> }

XhrBodies ==
    { <<>>,
      <<"{", "name", ":", "x", "}">>,
      <<"{", "error", ":", "m", "}">>,
      <<"--batchresponse", "HTTP/1.1 204 No Content", "--batchresponse">>,
      <<"<html>", "Bad Gateway", "</html>">> }

\* the object after the next step of a transfer that goes well
Received(o) ==
    CASE o.readyState = 1 ->
             {[o EXCEPT !.readyState = 2, !.status = s, !.headers = h] :
                  s \in XhrStatuses, h \in XhrHeaders}
      [] o.readyState = 2 -> {[o EXCEPT !.readyState = 3]}
      [] o.readyState = 3 ->
             {[o EXCEPT !.readyState = 4, !.responseText = b] : b \in XhrBodies}
      [] OTHER -> {}

\* the object after the transfer failed: a network error, or a timeout when
\* options.timeout is set; the event named is fired after readystatechange
Broken(o, t) ==
    {[readyState |-> 4, status |-> 0, headers |-> <<>>, responseText |-> <<>>,
      event |-> e] : e \in {"error"} \cup (IF t # 0 THEN {"timeout"} ELSE {})}

XhrTimeouts == {0, 30000}

InitXhr ==
    /\ entityNames = Null
    /\ call = "xhrRequest"
    /\ pc = "ready"
    /\ functionName = <<>>
    /\ config = Null
    /\ request = BaseRequest
    /\ given = BaseRequest
    /\ result = Null
    /\ error = NoErr
    /\ BatchIdle
    /\ xmlHttpRequest = XhrUnsent
    /\ released = FALSE
    /\ timeout \in XhrTimeouts
    /\ responseParams \in {<<>>, << [convertedToJson |-> TRUE] >>}
    /\ callbacks = <<>>
    /\ thrown = NoErr

\* lines 14-111: xhrRequest(options) opens the request, sets the handlers and
\* sends it
XhrRequest ==
    /\ call = "xhrRequest"
    /\ pc = "ready"
    /\ xmlHttpRequest' = [xmlHttpRequest EXCEPT !.readyState = 1]
    /\ pc' = "returned"
    /\ UNCHANGED <<entityNames, call, functionName, config, request, given, result, error,
                   requests, idx, batchBoundary, batchBody, currentChangeSet, contentId,
                   uuidCount, released, timeout, responseParams, callbacks, thrown>>

\* the handler run r leaves its marks
HandlerRan(r) ==
    /\ released' = r.released
    /\ responseParams' = r.responseParams
    /\ callbacks' = callbacks \o r.calls
    /\ thrown' = r.thrown
    /\ UNCHANGED <<entityNames, call, pc, functionName, config, request, given, result,
                   error, requests, idx, batchBoundary, batchBody, currentChangeSet,
                   contentId, uuidCount, timeout>>

\* the transport changes readyState and fires readystatechange
OnReadyStateChange ==
    /\ call = "xhrRequest"
    /\ pc = "returned"
    /\ xmlHttpRequest.readyState \in 1..3
    /\ \E o \in Received(xmlHttpRequest) \cup Broken(xmlHttpRequest, timeout) :
           /\ xmlHttpRequest' = o
           /\ \E r \in {onreadystatechange(o, released, responseParams)} : HandlerRan(r)

\* the transport fires error after a network failure
OnError ==
    /\ call = "xhrRequest"
    /\ xmlHttpRequest.event = "error"
    /\ xmlHttpRequest' = [xmlHttpRequest EXCEPT !.event = "none"]
    /\ \E r \in {onerror(xmlHttpRequest, released, responseParams)} : HandlerRan(r)

\* the transport fires timeout after the time allowed has passed
OnTimeout ==
    /\ call = "xhrRequest"
    /\ xmlHttpRequest.event = "timeout"
    /\ xmlHttpRequest' = [xmlHttpRequest EXCEPT !.event = "none"]
    /\ \E r \in {ontimeout(xmlHttpRequest, released, responseParams)} : HandlerRan(r)

NextXhr == XhrRequest \/ OnReadyStateChange \/ OnError \/ OnTimeout

SpecXhr == InitXhr /\ [][NextXhr]_vars

---------------------------------------------------------------------------
(* A caller of any of the entry points *)

Init == InitCompose \/ InitPrefer \/ InitBatch \/ InitUrl \/ InitStringify \/ InitXhr

Next == NextCompose \/ NextPrefer \/ NextBatch \/ NextUrl \/ NextStringify \/ NextXhr

Spec == Init /\ [][Next]_vars

---------------------------------------------------------------------------
(* Reading a batch body back: its lines and what each line is *)

\* the lines of the body convertToBatch returned
BodyLines == Split(Val(result).body, "\n")

\* the outer boundary as the returned Content-Type header names it
HeaderBoundary == Tail(Header(Val(result).headers, "Content-Type"))

IsOuterDelim(l, b) == l = <<"--">> \o b

IsOuterClose(l, b) == l = <<"--">> \o b \o <<"--">>

IsChangeSetHeader(l) == Len(l) >= 2 /\ l[1] = "Content-Type: multipart/mixed;boundary="

IsInnerDelim(l) == Len(l) >= 3 /\ l[1] = "--" /\ l[2] = "changeset_" /\ l[Len(l)] # "--"

IsChangeSetClose(l) == Len(l) >= 4 /\ l[1] = "--" /\ l[2] = "changeset_" /\ l[Len(l)] = "--"

IsRequestLine(l) == Len(l) >= 4 /\ l[2] = " " /\ l[Len(l)] = " HTTP/1.1"

IsContentIdLine(l) ==
    \/ Len(l) >= 1 /\ l[1] = "Content-ID: "
    \/ Len(l) >= 2 /\ l[1] = "Content-ID" /\ l[2] = ": "

\* the change-set token a change-set header, inner delimiter or closing delimiter names
TokenOf(l) ==
    IF IsChangeSetHeader(l) THEN Tail(l)
    ELSE IF IsChangeSetClose(l) THEN SubSeq(l, 2, Len(l) - 1)
    ELSE Tail(l)

\* the delimiters and request lines of a body, in order: O outer delimiter,
\* H change-set header, I inner delimiter, C change-set close, E outer close,
\* P request line (with the line)
RECURSIVE Skeleton(_, _)
Skeleton(ls, b) ==
    IF ls = <<>> THEN <<>>
    ELSE (IF IsOuterClose(Head(ls), b) THEN << <<"E">> >>
          ELSE IF IsOuterDelim(Head(ls), b) THEN << <<"O">> >>
          ELSE IF IsChangeSetHeader(Head(ls)) THEN << <<"H">> >>
          ELSE IF IsChangeSetClose(Head(ls)) THEN << <<"C">> >>
          ELSE IF IsInnerDelim(Head(ls)) THEN << <<"I">> >>
          ELSE IF IsRequestLine(Head(ls)) THEN << <<"P">> \o Head(ls) >>
          ELSE <<>>)
         \o Skeleton(Tail(ls), b)

\* how many elements of a sequence are e
RECURSIVE CountOf(_, _)
CountOf(sq, e) ==
    IF sq = <<>> THEN 0 ELSE (IF Head(sq) = e THEN 1 ELSE 0) + CountOf(Tail(sq), e)

\* the methods of the parts given
Methods(parts) == [i \in 1..Len(parts) |-> parts[i].method]

\* the request line a part must get: its method and its composed path, behind
\* the base URL unless the path is a `$` back-reference
ExpectedRequestLine(part, cfg) ==
    LET path == compose(part.request, cfg, "executeBatch").path
    IN  <<part.method, " ">>
        \o (IF StartsWith(path, <<"$">>) THEN path ELSE Val(cfg).webApiUrl \o path)
        \o <<" HTTP/1.1">>

\* the length of the maximal run of parts of one kind (GET, or non-GET) that
\* starts the sequence
RECURSIVE RunLength(_)
RunLength(parts) ==
    IF Len(parts) <= 1 THEN Len(parts)
    ELSE IF (parts[1].method = "GET") = (parts[2].method = "GET")
    THEN 1 + RunLength(Tail(parts))
    ELSE 1

\* what one maximal run must look like: each GET alone under an outer
\* delimiter; a run of non-GETs under one outer delimiter in one change-set
ExpectedRun(run, cfg) ==
    IF run[1].method = "GET"
    THEN Join([i \in 1..Len(run) |->
                  << <<"O">>, <<"P">> \o ExpectedRequestLine(run[i], cfg) >>], <<>>)
    ELSE << <<"O">>, <<"H">> >>
         \o Join([i \in 1..Len(run) |->
                  << <<"I">>, <<"P">> \o ExpectedRequestLine(run[i], cfg) >>], <<>>)
         \o << <<"C">> >>

RECURSIVE ExpectedRuns(_, _)
ExpectedRuns(parts, cfg) ==
    IF parts = <<>> THEN <<>>
    ELSE ExpectedRun(SubSeq(parts, 1, RunLength(parts)), cfg)
         \o ExpectedRuns(SubSeq(parts, RunLength(parts) + 1, Len(parts)), cfg)

\* C1: when convertToBatch returns, the body holds exactly one part per part
\* given, in the order given; every maximal run of consecutive non-GET parts
\* lies in exactly one change-set (one header, one closing delimiter) and every
\* GET part lies directly under an outer delimiter with no change-set open.
C1_PartsInOrderInChangeSets ==
    (call = "convertToBatch" /\ pc = "returned")
        => Skeleton(BodyLines, HeaderBoundary) = ExpectedRuns(given, config) \o << <<"E">> >>

\* C1 witness: [GET, non-GET, GET] was encoded with exactly one change-set
C1_Witness ==
    /\ call = "convertToBatch"
    /\ pc = "returned"
    /\ Methods(given) = <<"GET", "POST", "GET">>
    /\ CountOf(Skeleton(BodyLines, HeaderBoundary), <<"H">>) = 1
    /\ CountOf(Skeleton(BodyLines, HeaderBoundary), <<"C">>) = 1

\* Reading the lines from the first: `open` is the change-set open so far.
\* TRUE when no outer delimiter, change-set header or outer close comes while a
\* change-set is open, every inner delimiter and change-set close names the
\* open change-set, `used` (the tokens of the change-sets closed so far) is not
\* opened again, and the outer close is the last line, with none open.
RECURSIVE Balanced(_, _, _, _)
Balanced(ls, open, used, b) ==
    IF ls = <<>> THEN FALSE
    ELSE IF IsOuterClose(Head(ls), b) THEN IsNull(open) /\ Tail(ls) = <<>>
    ELSE IF IsOuterDelim(Head(ls), b) THEN IsNull(open) /\ Balanced(Tail(ls), open, used, b)
    ELSE IF IsChangeSetHeader(Head(ls))
    THEN /\ IsNull(open)
         /\ TokenOf(Head(ls)) \notin used
         /\ TokenOf(Head(ls)) # b
         /\ Balanced(Tail(ls), Some(TokenOf(Head(ls))), used, b)
    ELSE IF IsChangeSetClose(Head(ls))
    THEN /\ open = Some(TokenOf(Head(ls)))
         /\ Balanced(Tail(ls), Null, used \cup {TokenOf(Head(ls))}, b)
    ELSE IF IsInnerDelim(Head(ls))
    THEN open = Some(TokenOf(Head(ls))) /\ Balanced(Tail(ls), open, used, b)
    ELSE Balanced(Tail(ls), open, used, b)

\* the change-set left open by the lines pushed so far (Null when none)
RECURSIVE OpenAfter(_, _)
OpenAfter(ls, open) ==
    IF ls = <<>> THEN open
    ELSE IF IsChangeSetHeader(Head(ls)) THEN OpenAfter(Tail(ls), Some(TokenOf(Head(ls))))
    ELSE IF IsChangeSetClose(Head(ls)) THEN OpenAfter(Tail(ls), Null)
    ELSE OpenAfter(Tail(ls), open)

\* C2: for every sequence of parts, the empty one included, the delimiters of
\* the returned body are balanced: a change-set that is opened is closed once,
\* before the next outer delimiter; none is open at the end; the outer closing
\* delimiter comes once, as the last line.  While the loop runs, the
\* change-set the pushed lines leave open is currentChangeSet.
C2_DelimitersBalanced ==
    /\ (call = "convertToBatch" /\ pc = "returned")
           => /\ Balanced(BodyLines, Null, {}, HeaderBoundary)
              /\ CountOf(Skeleton(BodyLines, HeaderBoundary), <<"E">>) = 1
              /\ CountOf(Skeleton(BodyLines, HeaderBoundary), <<"H">>)
                     = CountOf(Skeleton(BodyLines, HeaderBoundary), <<"C">>)
    /\ (call = "convertToBatch" /\ pc = "loop")
           => OpenAfter(Split(Join(batchBody, <<"\n">>), "\n"), Null) = currentChangeSet

\* C2 witness: a body with two change-sets, both closed, was returned
C2_Witness ==
    /\ call = "convertToBatch"
    /\ pc = "returned"
    /\ CountOf(Skeleton(BodyLines, HeaderBoundary), <<"H">>) = 2
    /\ CountOf(Skeleton(BodyLines, HeaderBoundary), <<"C">>) = 2

\* the Content-ID values of each part: for every request line, in order, the
\* values of the Content-ID lines since the request line before it
RECURSIVE PartContentIds(_, _)
PartContentIds(ls, seen) ==
    IF ls = <<>> THEN <<>>
    ELSE IF IsRequestLine(Head(ls)) THEN <<seen>> \o PartContentIds(Tail(ls), <<>>)
    ELSE IF IsContentIdLine(Head(ls))
    THEN PartContentIds(Tail(ls), Append(seen, Head(ls)[Len(Head(ls))]))
    ELSE PartContentIds(Tail(ls), seen)

\* how many lines are Content-ID lines
RECURSIVE ContentIdLineCount(_)
ContentIdLineCount(ls) ==
    IF ls = <<>> THEN 0
    ELSE (IF IsContentIdLine(Head(ls)) THEN 1 ELSE 0) + ContentIdLineCount(Tail(ls))

\* the part has a Content-ID header of its own: a contentId that is no back-reference
OwnContentId(part) ==
    TruthyStr(part.request.contentId) /\ ~StartsWith(Val(part.request.contentId), <<"$">>)

\* the last GET before part i (0 when none)
LastGetBefore(parts, i) ==
    IF \E j \in 1..(i - 1) : parts[j].method = "GET"
    THEN CHOOSE j \in 1..(i - 1) :
             parts[j].method = "GET" /\ \A k \in (j + 1)..(i - 1) : parts[k].method # "GET"
    ELSE 0

\* the value auto-assigned to part i: 100000 plus the number of non-GET parts
\* without their own ID from the last GET up to and including part i
AutoContentId(parts, i) ==
    100000 + Cardinality({j \in (LastGetBefore(parts, i) + 1)..i : ~OwnContentId(parts[j])})

\* C3: a GET part carries no Content-ID line and a non-GET part exactly one:
\* its own Content-ID when it has one, else the next value of a counter that
\* starts at 100000, counts the non-GET parts without their own ID and starts
\* again at 100000 when a GET closes a change-set.
C3_ContentIds ==
    /\ (call = "convertToBatch" /\ pc = "returned")
           => /\ Len(PartContentIds(BodyLines, <<>>)) = Len(given)
              /\ ContentIdLineCount(BodyLines)
                     = Cardinality({i \in 1..Len(given) : given[i].method # "GET"})
              /\ \A i \in 1..Len(given) :
                     PartContentIds(BodyLines, <<>>)[i] =
                         IF given[i].method = "GET" THEN <<>>
                         ELSE IF OwnContentId(given[i])
                         THEN given[i].request.contentId[1]
                         ELSE <<ToString(AutoContentId(given, i))>>
    /\ (call = "convertToBatch" /\ pc = "loop") => contentId >= 100000

\* C3 witness: the counter started again after a GET closed a change-set
C3_Witness ==
    /\ call = "convertToBatch"
    /\ pc = "returned"
    /\ Methods(given) = <<"POST", "GET", "POST">>
    /\ PartContentIds(BodyLines, <<>>) = << <<"100001">>, <<>>, <<"100001">> >>

---------------------------------------------------------------------------
(* Claims about compose *)

\* both conditional options are set on the descriptor
BothConditionals(d) == ~IsNull(d.ifmatch) /\ ~IsNull(d.ifnonematch)

MissingCollection(d) == ~TruthyStr(d.url) /\ ~d.isUnboundRequest /\ ~TruthyStr(d.collection)

\* a descriptor addressed by collection whose key, or whose id when it has no
\* key, is malformed
MalformedKey(d) ==
    /\ ~TruthyStr(d.url)
    /\ ~IsNull(d.collection)
    /\ \/ d.key = Some(<<"bad key">>)
       \/ ~TruthyStr(d.key) /\ d.id = Some(<<"not-a-guid">>)

\* C5: validation is fail-fast with no partial output.  compose returns no
\* converted request when a required field is missing or malformed; when
\* composing any part of a batch fails, convertToBatch returns no headers and
\* no body, however many earlier parts were already encoded, and the error
\* reaches the caller.
C5_FailFastNoPartialOutput ==
    /\ call = "compose"
           => /\ (pc # "ready" /\ (MissingCollection(given) \/ MalformedKey(given)))
                     => (pc = "thrown" /\ result = Null /\ error.kind = "ValidationError")
              /\ pc = "thrown" => (result = Null /\ Failed(error))
              /\ pc = "returned" => (result # Null /\ ~Failed(error))
    /\ call = "convertToBatch"
           => /\ (\E i \in 1..Len(given) :
                      \/ MissingCollection(given[i].request)
                      \/ Failed(compose(given[i].request, config, "executeBatch").err))
                     => (result = Null /\ pc # "returned")
              /\ pc = "thrown" => (result = Null /\ Failed(error))
              /\ pc = "returned" => (result # Null /\ ~Failed(error))

\* C5 witness: the third part of a batch failed after two parts were encoded
C5_Witness ==
    /\ call = "convertToBatch"
    /\ pc = "thrown"
    /\ idx = 3
    /\ MissingCollection(given[3].request)
    /\ CountOf(Skeleton(Split(Join(batchBody, <<"\n">>), "\n"), batchBoundary), <<"O">>) >= 1
    /\ result = Null

\* the composed path starts with `<contentId>/`
PathPrefixed(d, path) == StartsWith(path, Val(d.contentId) \o <<"/">>)

\* the descriptor is addressed by collection: no url, a collection
ByCollection(d) == ~TruthyStr(d.url) /\ ~IsNull(d.collection)

\* C8 as stated: for every descriptor with a non-empty contentId, a contentId
\* starting with `$` prefixes the path and gives no Content-ID header; any
\* other leaves the path alone and becomes the Content-ID header.
C8_PrefixOrHeader ==
    (call = "compose" /\ pc = "returned" /\ TruthyStr(given.contentId))
        => IF StartsWith(Val(given.contentId), <<"$">>)
           THEN /\ PathPrefixed(given, Val(result).path)
                /\ ~HasHeader(Val(result).headers, "Content-ID")
           ELSE /\ ~PathPrefixed(given, Val(result).path)
                /\ HasHeader(Val(result).headers, "Content-ID")
                /\ Header(Val(result).headers, "Content-ID") = Val(given.contentId)

\* C8 amended: for every descriptor with a non-empty contentId that compose
\* converts, a contentId starting with `$` gives no Content-ID header and
\* prefixes the path with `<contentId>/` exactly when the descriptor is
\* addressed by collection (no url, a collection); any other contentId leaves
\* the path unprefixed and is the value of the Content-ID header.
C8_PrefixOnlyByCollection ==
    (call = "compose" /\ pc = "returned" /\ TruthyStr(given.contentId))
        => IF StartsWith(Val(given.contentId), <<"$">>)
           THEN /\ PathPrefixed(given, Val(result).path) <=> ByCollection(given)
                /\ ~HasHeader(Val(result).headers, "Content-ID")
           ELSE /\ ~PathPrefixed(given, Val(result).path)
                /\ HasHeader(Val(result).headers, "Content-ID")
                /\ Header(Val(result).headers, "Content-ID") = Val(given.contentId)

\* C8 witness: a `$` contentId prefixed the path of a descriptor addressed by
\* collection and gave no header
C8_Witness ==
    /\ call = "compose"
    /\ pc = "returned"
    /\ given.contentId = Some(<<"$", "1">>)
    /\ ByCollection(given)
    /\ StartsWith(Val(result).path, <<"$", "1", "/", "accounts">>)
    /\ ~HasHeader(Val(result).headers, "Content-ID")

\* every field but select, and but the fields in `free`, is as it was
FieldsKept(d0, d1, free) == \A f \in (RequestFields \ ({"select"} \cup free)) : d1[f] = d0[f]

\* select is as it was, or has lost its first entry
SelectTrimmed(d0, d1) ==
    \/ d1.select = d0.select
    \/ /\ ~IsNull(d0.select)
       /\ Len(Val(d0.select)) > 0
       /\ d1.select = Some(Tail(Val(d0.select)))

\* key is as it was, or, on a descriptor addressed by collection, is the
\* validated key given or else the GUID given as id
KeyAssigned(d0, d1) ==
    \/ d1.key = d0.key
    \/ /\ ByCollection(d0)
       /\ TruthyStr(d0.key)
       /\ d1.key = Some(keyParameterCheck(Val(d0.key), "request.key").value)
    \/ /\ ByCollection(d0)
       /\ ~TruthyStr(d0.key)
       /\ TruthyStr(d0.id)
       /\ d1.key = d0.id

\* C9 as stated: compose, and so convertToBatch, changes no field of a
\* descriptor other than trimming select, whether the call succeeds or fails.
C9_OnlySelectChanges ==
    /\ call = "compose" => (FieldsKept(given, request, {}) /\ SelectTrimmed(given, request))
    /\ call = "convertToBatch"
           => \A i \in 1..Len(given) :
                  /\ FieldsKept(given[i].request, requests[i].request, {})
                  /\ SelectTrimmed(given[i].request, requests[i].request)

\* C9 amended: compose, and so convertToBatch, changes no field of a
\* descriptor other than trimming select and assigning key (the validated key
\* given or, without one, the GUID given as id, on a descriptor addressed by
\* collection); id and every other field are as before, whether the call
\* succeeds or fails.
C9_OnlySelectAndKeyChange ==
    /\ call = "compose"
           => /\ FieldsKept(given, request, {"key"})
              /\ SelectTrimmed(given, request)
              /\ KeyAssigned(given, request)
    /\ call = "convertToBatch"
           => /\ Len(requests) = Len(given)
              /\ \A i \in 1..Len(given) :
                     /\ requests[i].method = given[i].method
                     /\ FieldsKept(given[i].request, requests[i].request, {"key"})
                     /\ SelectTrimmed(given[i].request, requests[i].request)
                     /\ KeyAssigned(given[i].request, requests[i].request)

\* C9 witness: a call that failed had trimmed select and assigned key
C9_Witness ==
    /\ call = "compose"
    /\ pc = "thrown"
    /\ request.select # given.select
    /\ request.key # given.key
    /\ request.id = given.id

\* the select list of the descriptor is not empty
SelectGiven(d) == ~IsNull(d.select) /\ Len(Val(d.select)) > 0

\* the url and the queryArray after a select rule that appends `suffix` to the
\* path and leaves `rest` for `$select=`
SelectOutcome(st, suffix, rest) ==
    [st EXCEPT !.url = st.url \o suffix,
               !.query = IF Len(rest) > 0
                         THEN Append(st.query, <<"$select=">> \o Join(rest, <<",">>))
                         ELSE st.query]

\* the select rule as C10 states it
SelectAsStated(st, fn) ==
    LET sel == Val(st.request.select)
    IN  IF Len(sel) = 1 /\ EndsWith(sel[1], <<"/", "$ref">>)
        THEN SelectOutcome(st, <<"/">> \o sel[1], <<>>)
        ELSE IF fn = "retrieve" /\ StartsWith(sel[1], <<"/">>)
        THEN SelectOutcome(st, sel[1], Tail(sel))
        ELSE SelectOutcome(st, <<>>, sel)

\* the select rule as amended: both special cases in a top-level retrieve
\* only; the entry that starts with `/` is appended to the path only without
\* a navigationProperty
SelectAsAmended(st, fn) ==
    LET sel == Val(st.request.select)
    IN  IF fn = "retrieve" /\ Len(sel) = 1 /\ EndsWith(sel[1], <<"/", "$ref">>)
        THEN SelectOutcome(st, <<"/">> \o sel[1], <<>>)
        ELSE IF fn = "retrieve" /\ StartsWith(sel[1], <<"/">>)
        THEN SelectOutcome(st, IF IsNull(st.request.navigationProperty) THEN sel[1] ELSE <<>>,
                           Tail(sel))
        ELSE SelectOutcome(st, <<>>, sel)

\* the locals of composeUrl when it reaches select, for the descriptor d
BeforeSelect(d, cfg) ==
    UrlNavigation([request |-> d, url |-> ComposeAddress(d, cfg).path, query |-> <<>>,
                   err |-> NoErr])

\* the path compose returns when select is handled by Rule and the other
\* query options as composeUrl handles them
PathBy(Rule(_, _), d, cfg, fn) ==
    UrlAfterSelect(Rule(BeforeSelect(d, cfg), fn), fn, cfg, "&").url

\* C10 as stated: a single entry ending in `/$ref` is appended to the path and
\* no `$select` is emitted; in a top-level retrieve a first entry starting
\* with `/` is removed from the list and appended to the path; the remaining
\* entries are comma-joined in order into `$select=`, omitted when none remain.
C10_SelectAsStated ==
    (call = "compose" /\ pc = "returned" /\ SelectGiven(given))
        => Val(result).path = PathBy(SelectAsStated, given, config, functionName)

\* C10 amended: in a top-level retrieve, a single entry ending in `/$ref` is
\* appended to the path after a `/` and no `$select` is emitted; otherwise, in
\* a top-level retrieve, a first entry starting with `/` is removed from the
\* list, and appended to the path only when the descriptor has no
\* navigationProperty; in every other case no entry is special.  The remaining
\* entries are comma-joined in order into `$select=`, omitted when none remain.
C10_SelectAsAmended ==
    (call = "compose" /\ pc = "returned" /\ SelectGiven(given))
        => /\ Val(result).path = PathBy(SelectAsAmended, given, config, functionName)
           /\ (functionName = "retrieve" /\ StartsWith(Val(given.select)[1], <<"/">>)
               /\ ~(Len(Val(given.select)) = 1 /\ EndsWith(Val(given.select)[1], <<"/", "$ref">>)))
                  => request.select = Some(Tail(Val(given.select)))

\* C10 witness: in a retrieve, [/contacts, name] put /contacts on the path and
\* name into $select
C10_Witness ==
    /\ call = "compose"
    /\ pc = "returned"
    /\ functionName = "retrieve"
    /\ given.select = Some(<< <<"/", "contacts">>, <<"name">> >>)
    /\ request.select = Some(<< <<"name">> >>)
    /\ Val(result).path = <<"accounts", "/", "contacts", "?", "$select=", "name">>

---------------------------------------------------------------------------
(* Claims about composePreferHeader *)

\* the three values by the stated precedence: the descriptor's when it gives
\* the field, the configuration's only when the field is absent
ByPrecedence(req, cfg) ==
    [returnRepresentation |-> IF ~IsNull(req.returnRepresentation)
                              THEN req.returnRepresentation ELSE cfg.returnRepresentation,
     includeAnnotations   |-> IF ~IsNull(req.includeAnnotations)
                              THEN req.includeAnnotations ELSE cfg.includeAnnotations,
     maxPageSize          |-> IF ~IsNull(req.maxPageSize)
                              THEN req.maxPageSize ELSE cfg.maxPageSize,
     trackChanges         |-> req.trackChanges]

\* C6: in the Prefer header a value the descriptor gives for
\* returnRepresentation, includeAnnotations or maxPageSize takes precedence
\* over the configuration's; the configuration's value is used only when the
\* descriptor leaves the field absent.
C6_DescriptorOverConfig ==
    (call = "composePreferHeader" /\ pc = "returned" /\ ~IsNull(config)
     /\ request.prefer = NoPrefer)
        => Val(result) = Join(PreferDirectives(ByPrecedence(request, Val(config))), <<",">>)

\* C7: a prefer option given as a sequence of directives produces the same
\* Prefer header as the same directives given as one comma-joined string.
C7_SequenceSameAsString ==
    (call = "composePreferHeader" /\ pc = "returned" /\ request.prefer.t = "arr")
        => Val(result) = composePreferHeader(
               [request EXCEPT !.prefer = PreferStr(Join(request.prefer.a, <<",">>))], config)

---------------------------------------------------------------------------
(* Claims about composeUrl *)

\* one query option as text, none when the option is not given
OptionText(present, text) == IF present THEN <<text>> ELSE <<>>

\* the query options of a descriptor other than expand, in the order select,
\* filter, top, orderby; no entry of select is special
PlainOptions(d) ==
    OptionText(~IsNull(d.select) /\ Len(Val(d.select)) > 0,
               <<"$select=">> \o Join(Val(d.select), <<",">>))
    \o OptionText(TruthyStr(d.filter),
                  <<"$filter=">> \o encodeURIComponent(FilterResult(Val(d.filter))))
    \o OptionText(TruthyNum(d.top), <<"$top=", ToString(Val(d.top))>>)
    \o OptionText(~IsNull(d.orderBy) /\ Len(Val(d.orderBy)) > 0,
                  <<"$orderby=">> \o Join(Val(d.orderBy), <<",">>))

\* every entry, at every depth, carries a property name
RECURSIVE AllNamed(_)
AllNamed(a) ==
    \A i \in 1..Len(a) :
        /\ TruthyStr(a[i].property)
        /\ a[i].expand.t = "arr" => AllNamed(a[i].expand.a)

\* the text after `$expand=` for the entries a: one item per entry, in order,
\* comma-joined; an item is the property name and, in parentheses, the entry's
\* own options joined with `;`, its expand composed the same way
RECURSIVE ExpectedExpand(_)
ExpectedWrapped(options) ==
    IF options = <<>> THEN <<>> ELSE <<"(">> \o Join(options, <<";">>) \o <<")">>

ExpectedItem(e) ==
    Val(e.property)
    \o ExpectedWrapped(PlainOptions(e)
                       \o OptionText(e.expand.t = "arr" /\ Len(e.expand.a) > 0,
                                     <<"$expand=">> \o ExpectedExpand(e.expand.a)))

ExpectedExpand(a) == Join([i \in 1..Len(a) |-> ExpectedItem(a[i])], <<",">>)

\* the depth to which the entries a nest expand
RECURSIVE ExpandDepth(_)
ExpandDepthMax(ds) == IF ds = {} THEN 0 ELSE CHOOSE d \in ds : \A e \in ds : e <= d

ExpandDepth(a) ==
    IF a = <<>> THEN 0
    ELSE 1 + ExpandDepthMax({ExpandDepth(a[i].expand.a) :
                                 i \in {j \in 1..Len(a) : a[j].expand.t = "arr"}})

InsideQuotes(s, k) == CountOf(SubSeq(s, 1, k - 1), "'") % 2 = 1

\* a braced GUID starts at atom k
BracedGuidAt(s, k) ==
    k >= 1 /\ k + 2 <= Len(s) /\ s[k] = "{" /\ s[k + 1] \in FilterGuids /\ s[k + 2] = "}"

\* atom k is a brace of a braced GUID that is not inside quotes
UnquotedBrace(s, k) ==
    ~InsideQuotes(s, k) /\ (BracedGuidAt(s, k) \/ BracedGuidAt(s, k - 2))

\* the atoms of s kept: those whose index is not in `dropped`, in order
RECURSIVE Keeping(_, _, _)
Keeping(s, k, dropped) ==
    IF k > Len(s) THEN <<>>
    ELSE (IF k \in dropped THEN <<>> ELSE <<s[k]>>) \o Keeping(s, k + 1, dropped)

\* the filter with the braces of every unquoted braced GUID removed and
\* nothing else changed
BracesRemoved(s) == Keeping(s, 1, {k \in 1..Len(s) : UnquotedBrace(s, k)})

\* the text of the `$filter=` option in a composed url
FilterOption(url) == SubSeq(url, IndexOf(url, <<"$filter=">>) + 1, Len(url))

\* C13: before a filter is URL-encoded, every braced GUID literal that is not
\* inside quotes is rewritten to the same GUID without braces, a `)` directly
\* after it being kept and otherwise a space inserted; nothing else in the
\* filter is changed, and braced GUIDs inside quotes are left as they are.
\* Stated for filters whose quotes are paired, and up to spaces: apart from
\* its spaces the encoded filter is the given one without those braces.
C13_FilterBracesRemoved ==
    (call = "composeUrl" /\ pc # "ready" /\ TruthyStr(given.filter)
     /\ CountOf(Val(given.filter), "'") % 2 = 0)
        => /\ pc = "returned"
           /\ RemoveAll(FilterOption(Val(result)), "%20")
                  = encodeURIComponent(RemoveAll(BracesRemoved(Val(given.filter)), " "))

---------------------------------------------------------------------------
(* Claims about stringifyData *)

\* the reference fields with a string value, at any depth of the payload
RECURSIVE ReferenceFields(_)
ReferenceFields(fields) ==
    IF fields = <<>> THEN {}
    ELSE (IF Head(fields)[2].t = "object" THEN ReferenceFields(Head(fields)[2].fields)
          ELSE IF IsReferenceName(Head(fields)[1])
          THEN {[name |-> Head(fields)[1], value |-> Head(fields)[2].s]}
          ELSE {})
         \cup ReferenceFields(Tail(fields))

\* the text up to the closing quote
RECURSIVE UpToQuote(_)
UpToQuote(text) ==
    IF text = <<>> \/ Head(text) = "\"" THEN <<>> ELSE <<Head(text)>> \o UpToQuote(Tail(text))

\* the value emitted for the field `name`: what stands between the quotes
\* after `"name":`
EmittedValue(text, name) ==
    UpToQuote(SubSeq(text, IndexOf(text, name \o <<"\"", ":", "\"">>) + Len(name) + 3, Len(text)))

\* what C12 says of the value e emitted for the reference field `name` given as v
EmittedAsStated(name, v, e) ==
    IF StartsWith(v, <<"$">>) THEN e = v
    ELSE /\ ~HasBracedKey(e)
         /\ EndsWith(name, <<"@odata.bind">>)
                => (StartsWith(e, <<"/">>) \/ StartsWith(e, WebApiUrl))
         /\ EndsWith(name, <<"@odata.id">>) => StartsWith(e, WebApiUrl)
         /\ StartsWith(v, WebApiUrl)
                => (StartsWith(e, WebApiUrl) /\ CountOf(e, WebApiUrl[1]) = 1)

\* C12: for every payload field, at any depth, whose name ends in `@odata.bind`
\* or `@odata.id` and whose value is a string, a value starting with `$` is
\* emitted unchanged; otherwise the braces around an embedded GUID are removed
\* and the emitted value starts with `/` or the base URL for `@odata.bind` and
\* with the base URL for `@odata.id`; a value that already starts with the
\* base URL gets no further prefix.
C12_ReferencesRewritten ==
    (call = "stringifyData" /\ pc # "ready")
        => /\ pc = "returned"
           /\ \A f \in ReferenceFields(given) :
                  EmittedAsStated(f.name, f.value, EmittedValue(Val(result), f.name))

---------------------------------------------------------------------------
(* Claims about xhrRequest *)

\* C14: an xhrRequest whose XMLHttpRequest has reached readyState 4 has had
\* exactly one callback invoked: successCallback with {data, headers, status}
\* when the status is 200, 201, 204 or 304 and errorCallback for every other
\* status, also when the body cannot be parsed; and responseParams is empty
\* afterwards.
C14_OneCallbackPerCompletion ==
    (call = "xhrRequest" /\ xmlHttpRequest.readyState = 4)
        => /\ Len(callbacks) = 1
           /\ IF xmlHttpRequest.status \in XhrSuccessStatuses
              THEN /\ callbacks[1].callback = "successCallback"
                   /\ DOMAIN callbacks[1].argument = {"data", "headers", "status"}
                   /\ callbacks[1].argument.status = xmlHttpRequest.status
              ELSE callbacks[1].callback = "errorCallback"
           /\ responseParams = <<>>

\* C15: whatever events the transport delivers for one xhrRequest call, the
\* two callbacks are invoked at most once in total, and a handler that runs
\* once `request` is null invokes no callback and raises no exception.
C15_QuietAfterRelease ==
    call = "xhrRequest"
        => /\ Len(callbacks) <= 1
           /\ released => ~Failed(thrown)

=============================================================================
